---- MODULE Spec2Model ----
(***************************************************************************)
(* Gate controller of the tollgate module (src/src/valve/valve.go).        *)
(*                                                                         *)
(* OpenGateUntil is modelled as a process per concurrent caller, split at  *)
(* the points where other goroutines can interleave: the deadline check,   *)
(* the acquisition of gatesMutex, the external ndsctl / tc commands and    *)
(* the installation of the timer.  Every timer created by time.AfterFunc   *)
(* is a record of the timer table; its callback is a second kind of        *)
(* process that runs deauthorizeMAC without the mutex and then deletes the *)
(* map entry under the mutex.                                              *)
(***************************************************************************)
EXTENDS Integers, Sequences, FiniteSets, TLC

\* ------------------------------------------------------------------ bounds
\* Spec: one caller, NumDevices devices, MaxTimers timers.
NumDevices == 1
MaxTimers  == 2
\* SpecRace: as Spec, with RaceTimers timers.
RaceTimers == 3
\* SpecConc: NumCallers callers, ConcDevices devices, ConcTimers timers.
NumCallers  == 2
ConcDevices == 2
ConcTimers  == 2
\* the clock runs from 0 to MaxTime
MaxTime == 1
\* SpecPay, SpecPayConc: MaxAdded calls of AddAllotment from outside
\* PurchaseSession
MaxAdded == 1
\* SpecStore: StoreCalls calls of AddAllotment
StoreCalls == 3
\* SpecCalc: amounts from 0 to MaxAmount
MaxAmount == 30
\* SpecPayout: MaxTicks ticks of the payout ticker
MaxTicks == 2
\* SpecTc: TcCalls calls of InitTrafficControl
TcCalls == 5

\* --------------------------------------------------------------- constants
FreeLimitKbps == 2048

\* MAC addresses are sequences of bytes; the devices differ in the last byte.
Mac(i) == <<170, i + 1>>

Devices == {Mac(i) : i \in 1..ConcDevices}

\* the devices the single caller of Spec and SpecRace opens the gate for
SeqDevices == {Mac(i) : i \in 1..NumDevices}

Callers == 1..NumCallers

Untils == 0..(MaxTime + 1)

TierInputs == {"free", "premium", "bogus"}

\* the deadlines and tiers of the concurrent callers of SpecConc, which all
\* read the clock at 0
ConcUntils == {0, 1}

ConcTiers == {"free", "premium"}

NoTimer == 0

Unlocked == 0

NoErr == "nil"

ErrPast == "timestamp is in the past"

ErrAuthorize == "error authorizing MAC"

ErrUnknownTier == "unknown tier"

ErrNdsctl == "ndsctl auth failed"

\* valve.go:22-26
bandwidthLimits == [free |-> FreeLimitKbps, premium |-> 0, staff |-> 0]

\* valve.go:104-118, on a MAC given as its bytes: the last byte, at least 2.
getClassID(macAddress) ==
  IF Len(macAddress) >= 2
    THEN (IF macAddress[Len(macAddress)] < 2 THEN 2 ELSE macAddress[Len(macAddress)])
    ELSE 2

\* A MAC address as the text the code is given: strings.Split(text, ":")
\* (valve.go:106) yields its parts, each part is a sequence of characters.

\* the digits of base 16 in the order of their values, and the capitals
HexDigits ==
  <<"0", "1", "2", "3", "4", "5", "6", "7", "8", "9", "a", "b", "c", "d", "e", "f">>

HexCapitals == <<"A", "B", "C", "D", "E", "F">>

IsHexDigit(c) ==
  \/ \E i \in 1..Len(HexDigits) : HexDigits[i] = c
  \/ \E i \in 1..Len(HexCapitals) : HexCapitals[i] = c

HexValue(c) ==
  IF \E i \in 1..Len(HexCapitals) : HexCapitals[i] = c
    THEN 9 + (CHOOSE i \in 1..Len(HexCapitals) : HexCapitals[i] = c)
    ELSE (CHOOSE i \in 1..Len(HexDigits) : HexDigits[i] = c) - 1

RECURSIVE HexNumber(_)
\* the number a sequence of digits of base 16 stands for
HexNumber(digits) ==
  IF digits = << >> THEN 0
  ELSE 16 * HexNumber(SubSeq(digits, 1, Len(digits) - 1)) + HexValue(digits[Len(digits)])

\* valve.go:110: strconv.ParseInt(minor, 16, 64): an optional sign, then one
\* digit of base 16 at least and nothing else
ParseInt16(part) ==
  LET signed == part # << >> /\ part[1] \in {"+", "-"}
      digits == IF signed THEN Tail(part) ELSE part IN
    IF digits = << >> \/ \E i \in 1..Len(digits) : ~IsHexDigit(digits[i])
      THEN [ok |-> FALSE, val |-> 0]
      ELSE [ok |-> TRUE,
            val |-> IF signed /\ part[1] = "-" THEN 0 - HexNumber(digits)
                                               ELSE HexNumber(digits)]

\* valve.go:104-118 on the parts of the text (getClassIDTwoBytes: a class
\* number made of the last two parts, as the comment at valve.go:105 has it)
getClassIDTwoBytes(parts) ==
  IF Len(parts) >= 2
    THEN LET minor == parts[Len(parts) - 1] \o parts[Len(parts)]
             parsed == ParseInt16(minor) IN
           IF parsed.ok THEN (IF parsed.val < 2 THEN 2 ELSE parsed.val) ELSE 2
    ELSE 2

getClassIDOfText(parts) ==
  IF Len(parts) >= 2
    THEN LET minor == parts[Len(parts)]
             parsed == ParseInt16(minor) IN
           IF parsed.ok THEN (IF parsed.val < 2 THEN 2 ELSE parsed.val) ELSE 2
    ELSE 2

\* the first five parts of the MAC texts getClassID is applied to
MacPrefixes == { [i \in 1..5 |-> <<"a", "a">>], [i \in 1..5 |-> <<"0", "2">>] }

\* the digits of their last part
LastDigits == {"0", "1", "2", "9", "a", "F"}

\* MAC addresses in the notation with colons
ColonMacs == { p \o << <<h, l>> >> : p \in MacPrefixes, h \in LastDigits, l \in LastDigits }

\* other texts: a MAC address in the notation with hyphens (one part), a
\* last part that is no number, a last part of three digits
OtherTexts ==
  { << <<"a", "a", "-", "0", "2", "-", "0", "2", "-", "0", "2", "-", "0", "2", "-", "0", "9">> >>,
    [i \in 1..6 |-> IF i = 6 THEN <<"z", "z">> ELSE <<"a", "a">>],
    [i \in 1..6 |-> IF i = 6 THEN <<"1", "f", "f">> ELSE <<"a", "a">>] }

MacTexts == ColonMacs \cup OtherTexts

\* ---------------------------------------------------- package merchant

\* merchant:290: 24 * 60 * 60, the default session length in seconds
DaySeconds == 86400

\* merchant:801: the amount from which determineTier answers "premium"
PremiumThreshold == 10

\* merchant:240: the text PurchaseSession looks for in the wallet's error
SpentMarker == "Token already spent"

\* the notice codes of PurchaseSession, in the order of its stages
CodeToken == "invalid-payment-token"

CodeDevice == "invalid-device-identifier"

CodeMac == "invalid-mac-address"

CodeDecode == "payment-error-invalid-token"

CodeSpent == "payment-error-token-spent"

CodeProcessing == "payment-processing-failed"

CodeAllotment == "allotment-calculation-failed"

CodeSession == "session-management-failed"

CodeGate == "gate-opening-failed"

ErrNoTag == "no tag found in event"

ErrDecode == "invalid cashu token"

ErrNoMint == "mint configuration not found"

ErrSteps == "payment covers fewer steps than the minimum purchase"

ErrMetric == "unsupported metric"

\* the replies of PurchaseSession: nothing yet, a notice event (kind 21023 with
\* its level and code tags) or a session event (kind 1022)
NoReply == [kind |-> "none", level |-> "", code |-> ""]

\* merchant:753-791: the notice event CreateNoticeEvent builds.  The
\* identity it signs with is the one New has already signed the advertisement
\* with (merchant:88-91, 349-361), so after construction it is present.
CreateNoticeEvent(level, code) == [kind |-> "notice", level |-> level, code |-> code]

\* merchant:569-608: the session event, signed with the same identity
createSessionEvent == [kind |-> "session", level |-> "", code |-> ""]

\* the names of the identities the profit shares are paid to
PayeeNames == {"owner", "developer"}

\* configManager.GetIdentities(): present is whether it answers with a
\* configuration at all, merchant whether GetOwnedIdentity("merchant") finds
\* a key that signs, public the names GetPublicIdentity resolves
GoodIdentities == [present |-> TRUE, merchant |-> TRUE, public |-> PayeeNames]

IdentityConfigs ==
  [present : BOOLEAN, merchant : BOOLEAN, public : SUBSET PayeeNames]

ErrSign == "failed to sign event"

\* merchant:754-765, 785-788 and 573-584, 602-605: both builders fetch the
\* merchant identity and sign the event with its key; without the identities,
\* the identity or a key that signs they return no event and an error
\* (SignUnchecked: a builder that hands out the event whether signed or not)
SignUnchecked(ids, event) == [event |-> event, err |-> NoErr]

Sign(ids, event) ==
  IF ids.present /\ ids.merchant THEN [event |-> event, err |-> NoErr]
                                 ELSE [event |-> NoReply, err |-> ErrSign]

\* The amounts of processPayout are uint64.  The unsigned integers of the
\* model have 16 bits: they wrap around at WordModulus as those of the code
\* do at 2^64.
WordModulus == 65536

\* merchant:148: balance - mintConfig.MinBalance in unsigned arithmetic
UnsignedSub(a, b) == (a - b) % WordModulus

\* A profit share's Factor is a float64; the factors of the model are the
\* multiples of a quarter, which float64 holds exactly, given as their number
\* of quarters.
\* merchant:156: uint64(math.Round(float64(aimedPaymentAmount) * Factor)),
\* halves rounded away from zero
\* (ShareAmountTruncated: a conversion without math.Round)
ShareAmountTruncated(aimedPaymentAmount, quarters) ==
  (aimedPaymentAmount * quarters) \div 4

ShareAmount(aimedPaymentAmount, quarters) ==
  (2 * aimedPaymentAmount * quarters + 4) \div 8

\* merchant:170: tolerancePaymentAmount
TolerancePaymentAmount(aimedPaymentAmount, tolerancePercent) ==
  aimedPaymentAmount + ((aimedPaymentAmount * tolerancePercent) \div 100)

\* merchant:174: maxCost, of the amount PayoutShare was called with
\* (MaxCostOnce: a ceiling of the amount and its tolerance only)
MaxCostOnce(aimedPaymentAmount, tolerancePercent) ==
  TolerancePaymentAmount(aimedPaymentAmount, tolerancePercent)

MaxCost(aimedPaymentAmount, tolerancePercent) ==
  aimedPaymentAmount + TolerancePaymentAmount(aimedPaymentAmount, tolerancePercent)

\* merchant:159-162: `continue` goes on with the entry after i of n
\* (AfterUnresolvedBreak: a loop that ends at the first unresolved payee)
AfterUnresolvedBreak(i, n) == n + 1

AfterUnresolved(i, n) == i + 1

\* merchant:125-127, 178-181: processPayout returns to the loop over
\* ticker.C whether a payout failed or not
\* (AfterTickStops: a goroutine that ends after a failed payout)
AfterTickStops(failed) == IF failed THEN "stopped" ELSE "idle"

AfterTick(failed) == "idle"

\* the first tag of the event with at least minLen elements and the given name
\* (0 when there is none): the loops of merchant:374-378 and 384-388
FirstTag(tags, name, minLen) ==
  LET hits == {i \in 1..Len(tags) : Len(tags[i]) >= minLen /\ tags[i][1] = name} IN
    IF hits = {} THEN 0 ELSE CHOOSE i \in hits : \A j \in hits : i <= j

\* merchant:373-380 (extractPaymentTokenAny: a loop that takes a payment
\* tag without a value for a payment)
extractPaymentTokenAny(tags) ==
  LET i == FirstTag(tags, "payment", 1) IN
    IF i = 0 THEN [err |-> ErrNoTag, value |-> ""]
             ELSE [err |-> NoErr, value |-> IF Len(tags[i]) >= 2 THEN tags[i][2] ELSE ""]

extractPaymentToken(tags) ==
  LET i == FirstTag(tags, "payment", 2) IN
    IF i = 0 THEN [err |-> ErrNoTag, value |-> ""]
             ELSE [err |-> NoErr, value |-> tags[i][2]]

\* merchant:383-390
extractDeviceIdentifier(tags) ==
  LET i == FirstTag(tags, "device-identifier", 3) IN
    IF i = 0 THEN [err |-> ErrNoTag, value |-> << >>]
             ELSE [err |-> NoErr, value |-> tags[i][3]]

\* utils.ValidateMACAddress: hardware-address syntax, which for the addresses
\* of the model is the length of Mac(i) and bytes as elements
ValidateMACAddress(macAddress) ==
  Len(macAddress) = Len(Mac(1)) /\ \A i \in 1..Len(macAddress) : macAddress[i] \in 0..255

\* the mint the wallet and the configuration know
MintA == "https://mint.a"

\* a mint no entry of config.AcceptedMints names
MintX == "https://mint.x"

\* cashu.DecodeToken (merchant:224) and Token.Mint (merchant:258): the
\* tokens that decode, with their mint
DecodeToken(paymentToken) ==
  IF paymentToken \in {"cashuA1", "cashuA2"} THEN [err |-> NoErr, mint |-> MintA]
  ELSE IF paymentToken = "cashuX1" THEN [err |-> NoErr, mint |-> MintX]
  ELSE [err |-> ErrDecode, mint |-> ""]

\* strings.Contains (merchant:240) on a text given as its fragments
Contains(text, fragment) == \E i \in 1..Len(text) : text[i] = fragment

\* merchant:240-246: the notice code of a failed redemption
\* (RedemptionCodeExact: a comparison of the whole error text with the marker)
RedemptionCodeExact(errText) ==
  IF errText = <<SpentMarker>> THEN CodeSpent ELSE CodeProcessing

RedemptionCode(errText) ==
  IF Contains(errText, SpentMarker) THEN CodeSpent ELSE CodeProcessing

\* merchant:395-405: the entry of config.AcceptedMints for the mint (0 when
\* there is none)
FindMint(cfg, mintURL) ==
  LET hits == {i \in 1..Len(cfg.AcceptedMints) : cfg.AcceptedMints[i].URL = mintURL} IN
    IF hits = {} THEN 0 ELSE CHOOSE i \in hits : \A j \in hits : i <= j

\* merchant:425-433
calculateAllotmentMs(cfg, steps) == steps * cfg.StepSize

\* merchant:393-422 (calculateAllotmentCeil: a step count that is rounded
\* up; calculateAllotmentNoMinimum: a pricing without the check of
\* MinPurchaseSteps)
calculateAllotmentNoMinimum(cfg, amountSats, mintURL) ==
  LET i == FindMint(cfg, mintURL) IN
    IF i = 0 THEN [err |-> ErrNoMint, value |-> 0]
    ELSE LET mintConfig == cfg.AcceptedMints[i]
             steps == amountSats \div mintConfig.PricePerStep IN
           IF cfg.Metric = "milliseconds"
             THEN [err |-> NoErr, value |-> calculateAllotmentMs(cfg, steps)]
             ELSE [err |-> ErrMetric, value |-> 0]

calculateAllotmentCeil(cfg, amountSats, mintURL) ==
  LET i == FindMint(cfg, mintURL) IN
    IF i = 0 THEN [err |-> ErrNoMint, value |-> 0]
    ELSE LET mintConfig == cfg.AcceptedMints[i]
             steps == (amountSats + mintConfig.PricePerStep - 1) \div mintConfig.PricePerStep IN
           IF steps < mintConfig.MinPurchaseSteps THEN [err |-> ErrSteps, value |-> 0]
           ELSE IF cfg.Metric = "milliseconds"
                  THEN [err |-> NoErr, value |-> calculateAllotmentMs(cfg, steps)]
                  ELSE [err |-> ErrMetric, value |-> 0]

calculateAllotment(cfg, amountSats, mintURL) ==
  LET i == FindMint(cfg, mintURL) IN
    IF i = 0 THEN [err |-> ErrNoMint, value |-> 0]
    ELSE LET mintConfig == cfg.AcceptedMints[i]
             steps == amountSats \div mintConfig.PricePerStep IN
           IF steps < mintConfig.MinPurchaseSteps THEN [err |-> ErrSteps, value |-> 0]
           ELSE IF cfg.Metric = "milliseconds"
                  THEN [err |-> NoErr, value |-> calculateAllotmentMs(cfg, steps)]
                  ELSE [err |-> ErrMetric, value |-> 0]

\* merchant:798-808 (determineTierAbove: a threshold that is exclusive)
determineTierAbove(amount) ==
  IF amount = 0 THEN "free"
  ELSE IF amount > PremiumThreshold THEN "premium"
  ELSE "free"

determineTier(amount) ==
  IF amount = 0 THEN "free"
  ELSE IF amount >= PremiumThreshold THEN "premium"
  ELSE "free"

\* ------------------------------------------------- inputs of the merchant

Tokens == {"cashuA1", "cashuA2", "garbage"}

\* a device identifier that is no hardware address
BadMac == <<170>>

\* the tag lists of the payment events for a device: each way of lacking a
\* tag or its value, a device identifier that is no MAC, and each token
\* together with the device
PaymentEventsOf(m) ==
  { << <<"device-identifier", "mac", m>> >>,
    << <<"payment">>, <<"device-identifier", "mac", m>> >>,
    << <<"payment", "cashuA1">> >>,
    << <<"payment", "cashuA1">>, <<"device-identifier", "mac">> >>,
    << <<"payment", "cashuA1">>, <<"device-identifier", "mac", BadMac>> >> } \cup
  { << <<"payment", t>>, <<"device-identifier", "mac", m>> >> : t \in Tokens }

PaymentEvents(devs) == UNION {PaymentEventsOf(m) : m \in devs}

\* the payment events with a token of a mint that is not configured
ForeignEvents(devs) ==
  { << <<"payment", "cashuX1">>, <<"device-identifier", "mac", m>> >> : m \in devs }

\* the device the payments of SpecPay and SpecPayConc are for
PayDevices == {Mac(1)}

\* the goroutines of SpecPayConc
Payers == {1, 2}

\* their payment events: each token that decodes, for the device
ConcEvents ==
  { << <<"payment", t>>, <<"device-identifier", "mac", m>> >> :
      t \in {"cashuA1", "cashuA2"}, m \in PayDevices }

\* the amounts tollwallet.Receive reports
AmountsReceived == {5, 25}

\* the errors of tollwallet.Receive, as the fragments of their text
WalletErrors ==
  {<<SpentMarker>>, <<"failed to receive: ", SpentMarker>>, <<"mint unreachable">>}

\* the values of `amount` at merchant:294
TierAmounts == {9, 10}

Metrics == {"milliseconds", "bytes"}

\* the amount of each call of AddAllotment from outside PurchaseSession in
\* SpecPay
OutsideAmount == 100

\* the amounts of the calls of AddAllotment from outside PurchaseSession
DirectAmounts == {50, 100}

\* the configurations calculateAllotment is applied under on its own
CalcConfigs ==
  { [Metric |-> metric, StepSize |-> stepSize,
     AcceptedMints |-> << [URL |-> MintA, PricePerStep |-> price,
                           MinPurchaseSteps |-> minSteps] >>] :
      metric \in Metrics, stepSize \in {600, 3600000}, price \in {3, 10},
      minSteps \in {0, 1, 3} }

\* the configurations merchant.New is given
Configs ==
  { [Metric |-> "milliseconds", StepSize |-> 3600000,
     AcceptedMints |-> << [URL |-> MintA, PricePerStep |-> 10, MinPurchaseSteps |-> 1] >>],
    [Metric |-> "milliseconds", StepSize |-> 600,
     AcceptedMints |-> << [URL |-> MintA, PricePerStep |-> 10, MinPurchaseSteps |-> 2] >>],
    [Metric |-> "bytes", StepSize |-> 3600000,
     AcceptedMints |-> << [URL |-> MintA, PricePerStep |-> 10, MinPurchaseSteps |-> 1] >>] }

\* the balances tollwallet.GetBalanceByMint reports
Balances == {3, 4, 9, 14}

\* the configurations of SpecPayout: one mint with a minimum balance of 2, a
\* payout threshold of 4 and a tolerance of 10 or 50 percent; one, two or
\* three profit shares, "ghost" being a name no identity has
PayoutConfigs ==
  { [Metric |-> "milliseconds", StepSize |-> 3600000,
     AcceptedMints |-> << [URL |-> MintA, PricePerStep |-> 10, MinPurchaseSteps |-> 1,
                           MinBalance |-> 2, MinPayoutAmount |-> 4,
                           BalanceTolerancePercent |-> tolerance] >>,
     ProfitShare |-> shares] :
      tolerance \in {10, 50},
      shares \in { << [Factor |-> 4, Identity |-> "owner"] >>,
                   << [Factor |-> 3, Identity |-> "owner"],
                      [Factor |-> 1, Identity |-> "developer"] >>,
                   << [Factor |-> 2, Identity |-> "developer"],
                      [Factor |-> 1, Identity |-> "ghost"],
                      [Factor |-> 1, Identity |-> "owner"] >> } }

\* the same with any order of the minimum balance and the payout threshold
ThresholdConfigs ==
  { [cfg EXCEPT !.AcceptedMints[1].MinBalance = minBalance,
                !.AcceptedMints[1].MinPayoutAmount = minPayoutAmount] :
      cfg \in PayoutConfigs, minBalance \in {0, 2, 10}, minPayoutAmount \in {0, 4} }

\* the identities configurations of SpecPayout
PayoutIdentities == {ids \in IdentityConfigs : ids.merchant}

VARIABLES
  clock,      \* time.Now().Unix()
  call,       \* per caller: position in OpenGateUntil and its locals; authErr is
              \* the error of `ndsctl auth`, bwFailed whether a tc command failed
  gatesMutex, \* Unlocked or the caller holding the mutex
  openGates,  \* map[string]*time.Timer: device -> timer id
  timers,     \* every timer created by time.AfterFunc, by id
  netAuth,    \* ndsctl's state: is the device authorized
  tcClass,    \* tc classes present on br-lan (class ids)
  tcFilter,   \* devices with a tc filter on br-lan
  config,     \* Merchant.config: metric, step size and the accepted mints
  customerSessions, \* Merchant.customerSessions: device -> CustomerSession
  purchase,   \* per goroutine: position in PurchaseSession and its locals
  redeemed,   \* the tokens tollwallet.Receive has redeemed
  added,      \* how many calls of AddAllotment came from outside PurchaseSession
  calc,       \* determineTier, calculateAllotment and getClassID on their
              \* own: the arguments and, once applied, the results
  trafficControl, \* the root of br-lan's queueing (qdisc, rootClass) and the
              \* call of InitTrafficControl: position, commands run, result
  identities, \* what configManager.GetIdentities() answers with
  payout      \* the payout goroutine of the mint: position in processPayout,
              \* its locals and the calls of MeltToLightning it has made

vars == <<clock, call, gatesMutex, openGates, timers, netAuth, tcClass, tcFilter,
          config, customerSessions, purchase, redeemed, added, calc,
          identities, payout, trafficControl>>

\* the state of package merchant, which package valve never touches
merchantVars ==
  <<config, customerSessions, purchase, redeemed, added, calc, identities, payout>>

TimerIds == 1..Len(timers)

IdleCall ==
  [pc |-> "idle", macAddress |-> Mac(1), untilTimestamp |-> 1, tier |-> "free",
   now |-> 0, exists |-> FALSE, existingTimer |-> NoTimer, timer |-> NoTimer,
   err |-> NoErr, authErr |-> NoErr, bwFailed |-> FALSE]

Resting == {"idle", "done"}

InProgress == {c \in Callers : call[c].pc \notin Resting}

\* What a caller keeps of a call that has returned: the device, the error, the
\* timer it installed and whether a tc command failed on the way.
Returned(r, err, t) ==
  [IdleCall EXCEPT !.pc = "done", !.macAddress = r.macAddress, !.err = err,
                   !.timer = t, !.authErr = r.authErr, !.bwFailed = r.bwFailed]

\* A timer that was stopped, or whose callback has returned, never fires again.
Dead(tm, state) == [tm EXCEPT !.state = state, !.fireAt = 0]

\* a *CustomerSession that is nil
NoSession == [MacAddress |-> << >>, StartTime |-> 0, Metric |-> "", Allotment |-> 0]

\* the value of a field of the session that has not been read yet
Unread == -1

\* what is remembered of the payments a goroutine has served: how many were
\* merged into a session, the sum of their allotments, the time of the last
\* merge and whether one of them ended without the gate being opened
NoPaid == [count |-> 0, sum |-> 0, at |-> 0, lost |-> FALSE]

IdlePurchase ==
  [pc |-> "idle", event |-> << >>, paymentToken |-> "", deviceIdentifier |-> << >>,
   mint |-> "", recvErr |-> << >>, amountAfterSwap |-> 0, allotment |-> 0,
   session |-> NoSession, startTime |-> Unread, sessionAllotment |-> Unread,
   endTimestamp |-> 0, amount |-> 0, tier |-> "", reply |-> NoReply,
   err |-> NoErr, stages |-> << >>, paid |-> NoPaid]

\* the pricing determineTier's comment names (merchant:794-797): one accepted
\* mint, 10 sats per step of one hour, one step at least
TrailsConfig ==
  [Metric |-> "milliseconds", StepSize |-> 3600000,
   AcceptedMints |-> << [URL |-> MintA, PricePerStep |-> 10, MinPurchaseSteps |-> 1] >>]

\* br-lan with the HTB root and its class 1:1, as a successful
\* InitTrafficControl (merchant:98) leaves it; no call under way
TcReady ==
  [qdisc |-> "htb", rootClass |-> TRUE, pc |-> "idle", calls |-> 0,
   sawHTB |-> FALSE, cmds |-> << >>, err |-> NoErr,
   before |-> [qdisc |-> "htb", rootClass |-> TRUE], okBefore |-> FALSE]

\* br-lan as InitTrafficControl may find it: without a root qdisc of its own,
\* with one that is no HTB, or with an HTB root with or without its class 1:1
TcStarts ==
  { [TcReady EXCEPT !.qdisc = q.qdisc, !.rootClass = q.rootClass, !.before = q] :
      q \in { [qdisc |-> "none", rootClass |-> FALSE],
              [qdisc |-> "other", rootClass |-> FALSE],
              [qdisc |-> "htb", rootClass |-> FALSE],
              [qdisc |-> "htb", rootClass |-> TRUE] } }

\* the payout goroutine between two ticks, before its first tick
IdlePayout ==
  [pc |-> "idle", ticks |-> 0, balance |-> 0, aimedPaymentAmount |-> 0, i |-> 1,
   melts |-> << >>, skipped |-> {}, failedBefore |-> {}]

\* no function has been handed arguments
NoCalc ==
  [amount |-> 0, mintURL |-> "", applied |-> {}, tier |-> "", value |-> 0, err |-> NoErr]

\* the state after construction (valve's package variables, merchant.New)
\* with the configuration cfg, and the arguments args of the functions that
\* are applied on their own
Begin(cfg, args, tc) ==
  /\ clock = 0
  /\ call = [c \in Callers |-> IdleCall]
  /\ gatesMutex = Unlocked
  /\ openGates = << >>
  /\ timers = << >>
  /\ netAuth = [d \in Devices |-> FALSE]
  /\ tcClass = {}
  /\ tcFilter = {}
  /\ config = cfg
  /\ customerSessions = << >>
  /\ purchase = [p \in Callers |-> IdlePurchase]
  /\ redeemed = {}
  /\ added = 0
  /\ calc = args
  /\ identities = GoodIdentities
  /\ payout = IdlePayout
  /\ trafficControl = tc

Start(cfg) == Begin(cfg, NoCalc, TcReady)

Init == Start(TrailsConfig)

\* ---------------------------------------------------------------- helpers

\* valve.go:229: the deadline check of OpenGateUntil (IsPastStrict: a check
\* that lets a deadline equal to now pass)
IsPastStrict(durationSeconds) == durationSeconds < 0

IsPast(durationSeconds) == durationSeconds <= 0

\* valve.go:162-190: what authorizeMAC returns, given ndsctl's outcome and
\* the error of setBandwidthLimit, which is only logged (authorizeMACPropagate:
\* an authorizeMAC that returns it)
authorizeMACPropagate(ndsOk, bwErr) ==
  IF ~ndsOk THEN ErrAuthorize ELSE bwErr

authorizeMAC(ndsOk, bwErr) ==
  IF ~ndsOk THEN ErrAuthorize ELSE NoErr

\* valve.go:248-250: OpenGateUntil gives up when authorizeMAC failed
\* (AbortsNever: an OpenGateUntil that goes on regardless)
AbortsNever(err) == FALSE

Aborts(err) == err # NoErr

\* time.Timer.Stop (valve.go:257): a pending timer is stopped, a timer whose
\* callback has started (or that was stopped before) is left as it is; raced
\* records that Stop came too late for a running callback
\* (StopNothing: an extension that forgets to stop the old timer)
StopNothing(ts, t) == ts

Stop(ts, t) ==
  IF ts[t].state = "pending"
    THEN [ts EXCEPT ![t] = Dead(ts[t], "stopped")]
    ELSE IF ts[t].state \in {"deauth", "rmbw", "delete"}
           THEN [ts EXCEPT ![t].raced = TRUE]
           ELSE ts

\* valve.go:286: openGates[macAddress] = timer
\* (StoreLost: a store that drops the entries of the other devices)
StoreLost(og, macAddress, t) == [d \in {macAddress} |-> t]

Store(og, macAddress, t) ==
  [d \in (DOMAIN og) \cup {macAddress} |-> IF d = macAddress THEN t ELSE og[d]]

\* valve.go:281: delete(openGates, macAddress)
\* (DeleteKept: a callback that leaves the entry in the map)
DeleteKept(og, macAddress) == og

Delete(og, macAddress) == [d \in (DOMAIN og) \ {macAddress} |-> og[d]]

\* time.AfterFunc (valve.go:266): the timer fires no earlier than duration
\* after its creation
FireReady(t) == timers[t].state = "pending" /\ clock >= timers[t].fireAt

\* ------------------------------------------------------- OpenGateUntil

\* valve.go:222-237: read the clock, reject a deadline that is not in the
\* future before anything else happens
Call(c, macAddress, untilTimestamp, tier) ==
  /\ call[c].pc \in Resting
  /\ call' = [call EXCEPT ![c] =
       IF IsPast(untilTimestamp - clock)
         THEN [IdleCall EXCEPT !.pc = "done", !.macAddress = macAddress,
                 !.untilTimestamp = untilTimestamp, !.now = clock, !.err = ErrPast]
         ELSE [IdleCall EXCEPT !.pc = "lock", !.macAddress = macAddress,
                 !.untilTimestamp = untilTimestamp, !.tier = tier,
                 !.now = clock]]
  /\ UNCHANGED <<clock, gatesMutex, openGates, timers, netAuth, tcClass, tcFilter>>

\* valve.go:239-243: gatesMutex.Lock(); existingTimer, exists := openGates[mac]
Lock(c) ==
  /\ call[c].pc = "lock"
  /\ gatesMutex = Unlocked
  /\ gatesMutex' = c
  /\ LET m == call[c].macAddress IN
       call' = [call EXCEPT ![c].pc = "locked",
                            ![c].exists = (m \in DOMAIN openGates),
                            ![c].existingTimer =
                               IF m \in DOMAIN openGates THEN openGates[m] ELSE NoTimer]
  /\ UNCHANGED <<clock, openGates, timers, netAuth, tcClass, tcFilter>>
  /\ UNCHANGED merchantVars
  /\ UNCHANGED trafficControl

\* valve.go:245: `if !exists`, the branch that authorizes
\* (MustAuthorizeAlways: an OpenGateUntil that authorizes on every call;
\* MustAuthorizeNever: one that takes every device for an authorized one)
MustAuthorizeNever(exists) == FALSE

MustAuthorizeAlways(exists) == TRUE

MustAuthorize(exists) == ~exists

\* valve.go:245-250 with authorizeMAC 162-178: `ndsctl auth` under the mutex;
\* on failure the call returns the error (the deferred Unlock runs), otherwise
\* authorizeMAC goes on to setBandwidthLimit
Authorize(c) ==
  /\ call[c].pc = "locked"
  /\ MustAuthorize(call[c].exists)
  /\ \E ndsOk \in BOOLEAN :
       IF Aborts(authorizeMAC(ndsOk, NoErr))
         THEN /\ call' = [call EXCEPT ![c] =
                   Returned([call[c] EXCEPT !.authErr = ErrNdsctl], ErrAuthorize, NoTimer)]
              /\ gatesMutex' = Unlocked
              /\ UNCHANGED netAuth
         ELSE /\ call' = [call EXCEPT ![c].pc = IF ndsOk THEN "setbw" ELSE "timer",
                                      ![c].authErr = IF ndsOk THEN NoErr ELSE ErrNdsctl]
              /\ netAuth' = IF ndsOk
                              THEN [netAuth EXCEPT ![call[c].macAddress] = TRUE]
                              ELSE netAuth
              /\ UNCHANGED gatesMutex
  /\ UNCHANGED <<clock, openGates, timers, tcClass, tcFilter>>
  /\ UNCHANGED merchantVars
  /\ UNCHANGED trafficControl

\* valve.go:82-101: tc filter del, tc class del; both results are ignored
removeBandwidthLimit(macAddress, filterOk, classOk) ==
  /\ tcFilter' = IF filterOk THEN tcFilter \ {macAddress} ELSE tcFilter
  /\ tcClass' = IF classOk THEN tcClass \ {getClassID(macAddress)} ELSE tcClass

\* valve.go:30-79: the error setBandwidthLimit returns
setBandwidthLimitErr(tier) ==
  IF tier \notin DOMAIN bandwidthLimits THEN ErrUnknownTier ELSE NoErr

\* valve.go:30-79: the tc commands setBandwidthLimit runs, given which succeed
setBandwidthLimit(macAddress, tier, firstOk, secondOk) ==
  IF tier \notin DOMAIN bandwidthLimits
    THEN UNCHANGED <<tcClass, tcFilter>>
    ELSE IF bandwidthLimits[tier] = 0
           THEN removeBandwidthLimit(macAddress, firstOk, secondOk)
           ELSE /\ tcClass' = IF firstOk THEN tcClass \cup {getClassID(macAddress)}
                                         ELSE tcClass
                /\ tcFilter' = IF secondOk THEN tcFilter \cup {macAddress}
                                           ELSE tcFilter

\* valve.go:180-189: after a successful `ndsctl auth`, setBandwidthLimit, whose
\* error is logged; authorizeMAC returns nil
SetBandwidth(c) ==
  /\ call[c].pc = "setbw"
  /\ \E firstOk \in BOOLEAN, secondOk \in BOOLEAN :
       /\ setBandwidthLimit(call[c].macAddress, call[c].tier, firstOk, secondOk)
       /\ LET bwErr == setBandwidthLimitErr(call[c].tier)
              failed == (bwErr # NoErr) \/ ~firstOk \/ ~secondOk IN
            IF Aborts(authorizeMAC(TRUE, bwErr))
              THEN /\ call' = [call EXCEPT ![c] =
                        Returned([call[c] EXCEPT !.bwFailed = failed], ErrAuthorize, NoTimer)]
                   /\ gatesMutex' = Unlocked
              ELSE /\ call' = [call EXCEPT ![c].pc = "timer", ![c].bwFailed = failed]
                   /\ UNCHANGED gatesMutex
  /\ UNCHANGED <<clock, openGates, timers, netAuth>>
  /\ UNCHANGED merchantVars
  /\ UNCHANGED trafficControl

\* valve.go:254-262: the device has an entry: stop its timer, no authorization
StopExisting(c) ==
  /\ call[c].pc = "locked"
  /\ ~MustAuthorize(call[c].exists)
  /\ timers' = IF call[c].existingTimer # NoTimer
                 THEN Stop(timers, call[c].existingTimer)
                 ELSE timers
  /\ call' = [call EXCEPT ![c].pc = "timer"]
  /\ UNCHANGED <<clock, gatesMutex, openGates, netAuth, tcClass, tcFilter>>
  /\ UNCHANGED merchantVars
  /\ UNCHANGED trafficControl

\* valve.go:264-288: time.AfterFunc(duration, callback); openGates[mac] = timer;
\* return nil (the deferred Unlock runs)
InstallTimer(c) ==
  /\ call[c].pc = "timer"
  /\ LET t == Len(timers) + 1
         durationSeconds == call[c].untilTimestamp - call[c].now IN
       /\ timers' = Append(timers,
            [macAddress |-> call[c].macAddress,
             untilTimestamp |-> call[c].untilTimestamp,
             fireAt |-> clock + durationSeconds,
             state |-> "pending", raced |-> FALSE])
       /\ openGates' = Store(openGates, call[c].macAddress, t)
       /\ call' = [call EXCEPT ![c] = Returned(call[c], NoErr, t)]
  /\ gatesMutex' = Unlocked
  /\ UNCHANGED <<clock, netAuth, tcClass, tcFilter>>
  /\ UNCHANGED merchantVars
  /\ UNCHANGED trafficControl

\* ------------------------------------------------------ timer callback

\* the runtime starts the callback of a timer whose duration has elapsed
Fire(t) ==
  /\ FireReady(t)
  /\ timers' = [timers EXCEPT ![t].state = "deauth"]
  /\ UNCHANGED <<clock, call, gatesMutex, openGates, netAuth, tcClass, tcFilter>>
  /\ UNCHANGED merchantVars
  /\ UNCHANGED trafficControl

\* valve.go:196-202, 209: deauthorizeMAC returns when `ndsctl deauth` failed
\* and goes on to removeBandwidthLimit otherwise
\* (AfterDeauthReturn: a deauthorizeMAC that returns in both cases;
\* AfterDeauthGivesUp: a callback that ends when `ndsctl deauth` failed)
AfterDeauthReturn(ndsOk) == "delete"

AfterDeauthGivesUp(ndsOk) == IF ndsOk THEN "rmbw" ELSE "done"

AfterDeauth(ndsOk) == IF ndsOk THEN "rmbw" ELSE "delete"

\* valve.go:267 with deauthorizeMAC 193-207: `ndsctl deauth`, without the mutex
Deauthorize(t) ==
  /\ timers[t].state = "deauth"
  /\ \E ndsOk \in BOOLEAN :
       /\ timers' = [timers EXCEPT ![t].state = AfterDeauth(ndsOk)]
       /\ netAuth' = IF ndsOk THEN [netAuth EXCEPT ![timers[t].macAddress] = FALSE]
                              ELSE netAuth
  /\ UNCHANGED <<clock, call, gatesMutex, openGates, tcClass, tcFilter>>
  /\ UNCHANGED merchantVars
  /\ UNCHANGED trafficControl

\* deauthorizeMAC 209-217: removeBandwidthLimit after a successful deauth
RemoveBandwidth(t) ==
  /\ timers[t].state = "rmbw"
  /\ \E filterOk \in BOOLEAN, classOk \in BOOLEAN :
       removeBandwidthLimit(timers[t].macAddress, filterOk, classOk)
  /\ timers' = [timers EXCEPT ![t].state = "delete"]
  /\ UNCHANGED <<clock, call, gatesMutex, openGates, netAuth>>
  /\ UNCHANGED merchantVars
  /\ UNCHANGED trafficControl

\* valve.go:279-282: Lock; delete(openGates, macAddress); Unlock
DeleteEntry(t) ==
  /\ timers[t].state = "delete"
  /\ gatesMutex = Unlocked
  /\ openGates' = Delete(openGates, timers[t].macAddress)
  /\ timers' = [timers EXCEPT ![t] = Dead(timers[t], "done")]
  /\ UNCHANGED <<clock, call, gatesMutex, netAuth, tcClass, tcFilter>>
  /\ UNCHANGED merchantVars
  /\ UNCHANGED trafficControl

\* ---------------------------------------------------------------- time
Tick ==
  /\ clock < MaxTime
  /\ clock' = clock + 1
  /\ UNCHANGED <<call, gatesMutex, openGates, timers, netAuth, tcClass, tcFilter>>
  /\ UNCHANGED merchantVars
  /\ UNCHANGED trafficControl

\* The model stops starting calls when every further call could not get a
\* timer of the table.
TimersLeft(limit) == Len(timers) + Cardinality(InProgress) < limit

\* a call that starts while the timer table has room for its timer
BoundedCall(limit, c, macAddress, untilTimestamp, tier) ==
  /\ TimersLeft(limit)
  /\ Call(c, macAddress, untilTimestamp, tier)
  /\ UNCHANGED merchantVars
  /\ UNCHANGED trafficControl

\* the callbacks of the timers run as goroutines of their own
TimerFires == \E t \in TimerIds : Fire(t)

CallbackDeauthorizes == \E t \in TimerIds : Deauthorize(t)

CallbackRemovesBandwidth == \E t \in TimerIds : RemoveBandwidth(t)

CallbackDeletesEntry == \E t \in TimerIds : DeleteEntry(t)

Proceed(c) ==
  \/ Lock(c)
  \/ Authorize(c)
  \/ SetBandwidth(c)
  \/ StopExisting(c)
  \/ InstallTimer(c)

\* One goroutine calls OpenGateUntil again and again; the timer callbacks run
\* concurrently with it.
Next ==
  \/ \E m \in SeqDevices, u \in Untils, tier \in TierInputs :
       BoundedCall(MaxTimers, 1, m, u, tier)
  \/ Proceed(1)
  \/ TimerFires
  \/ CallbackDeauthorizes
  \/ CallbackRemovesBandwidth
  \/ CallbackDeletesEntry
  \/ Tick

Spec == Init /\ [][Next]_vars

\* Time goes on: the clock of the model advances to MaxTime, and beyond it
\* for as long as a timer waits for its time
TickOn ==
  /\ \/ clock < MaxTime
     \/ \E t \in TimerIds : timers[t].state = "pending" /\ timers[t].fireAt > clock
  /\ clock' = clock + 1
  /\ UNCHANGED <<call, gatesMutex, openGates, timers, netAuth, tcClass, tcFilter>>
  /\ UNCHANGED merchantVars
  /\ UNCHANGED trafficControl

\* the devices and the tier of the calls of SpecLive: two devices, so that
\* calls for one go on while the timer of the other fires
LiveDevices == {Mac(1), Mac(2)}

LiveTiers == {"free"}

\* the steps of the callback of the timer with id t, if there is one
CallbackOf(t) ==
  /\ t \in TimerIds
  /\ \/ Fire(t)
     \/ Deauthorize(t)
     \/ RemoveBandwidth(t)
     \/ DeleteEntry(t)

\* Spec with time going on.  The runtime fires a timer whose time has come
\* and schedules its callback, whose commands return; the caller of
\* OpenGateUntil finishes its call and releases gatesMutex.  A callback that
\* waits in gatesMutex.Lock gets the mutex although the caller takes it again
\* and again: sync.Mutex hands it to a goroutine that has waited long.
NextLive ==
  \/ \E m \in LiveDevices, u \in Untils, tier \in LiveTiers :
       BoundedCall(MaxTimers, 1, m, u, tier)
  \/ Proceed(1)
  \/ TimerFires
  \/ CallbackDeauthorizes
  \/ CallbackRemovesBandwidth
  \/ CallbackDeletesEntry
  \/ TickOn

LiveFairness ==
  /\ WF_vars(TickOn)
  /\ WF_vars(Proceed(1))
  /\ \A t \in 1..MaxTimers : SF_vars(CallbackOf(t))

SpecLive == Init /\ [][NextLive]_vars /\ LiveFairness

\* The same with more timers, for the runs in which a callback races with a
\* call and the device is authorized again afterwards.
NextRace ==
  \/ \E m \in SeqDevices, u \in Untils, tier \in TierInputs :
       BoundedCall(RaceTimers, 1, m, u, tier)
  \/ Proceed(1)
  \/ TimerFires
  \/ CallbackDeauthorizes
  \/ CallbackRemovesBandwidth
  \/ CallbackDeletesEntry
  \/ Tick

SpecRace == Init /\ [][NextRace]_vars

\* NumCallers goroutines call OpenGateUntil concurrently, before any timer
\* fires.
NextConc ==
  \/ \E c \in Callers, m \in Devices, u \in ConcUntils, tier \in ConcTiers :
       BoundedCall(ConcTimers, c, m, u, tier)
  \/ \E c \in Callers : Proceed(c)

SpecConc == Init /\ [][NextConc]_vars

\* ------------------------------------------------------- PurchaseSession

\* the stages of PurchaseSession that can fail, in the order of the code
StageOrder ==
  <<"token", "device", "mac", "decode", "receive", "allotment", "session", "gate">>

\* `if err != nil` (merchant:193, 204, 225, 260, 275, 299)
\* (FailedNever: a check that lets every error pass)
FailedNever(err) == FALSE

Failed(err) == err # NoErr

\* merchant:192-232: the stages before the wallet is used; n is the number of
\* stages that ran, code the notice code of the one that failed ("" if none)
Validate(tags) ==
  LET tok == extractPaymentToken(tags)
      dev == extractDeviceIdentifier(tags) IN
    IF Failed(tok.err) THEN [n |-> 1, code |-> CodeToken]
    ELSE IF Failed(dev.err) THEN [n |-> 2, code |-> CodeDevice]
    ELSE IF ~ValidateMACAddress(dev.value) THEN [n |-> 3, code |-> CodeMac]
    ELSE IF Failed(DecodeToken(tok.value).err) THEN [n |-> 4, code |-> CodeDecode]
    ELSE [n |-> 4, code |-> ""]

\* PurchaseSession returns the signed event, or the error of signing it, to
\* its caller (merchant:194-199 and alike, 309-314); of the call the payment
\* event, the stages that ran and the wallet's error are remembered
Replied(r, reply) ==
  LET signed == Sign(identities, reply) IN
    [IdlePurchase EXCEPT !.pc = "done", !.reply = signed.event, !.err = signed.err,
                         !.event = r.event, !.stages = r.stages,
                         !.recvErr = r.recvErr, !.paid = r.paid]

\* merchant:190-232: a payment event arrives; token, device identifier, MAC
\* format and token decoding are checked in this order, the first failure is
\* answered with its notice
PurchaseSession(p, tags) ==
  /\ purchase[p].pc \in Resting
  /\ LET v == Validate(tags)
         tok == extractPaymentToken(tags)
         dev == extractDeviceIdentifier(tags)
         r == [IdlePurchase EXCEPT
                 !.event = tags,
                 !.paymentToken = tok.value,
                 !.deviceIdentifier = dev.value,
                 !.mint = IF v.code = "" THEN DecodeToken(tok.value).mint ELSE "",
                 !.stages = SubSeq(StageOrder, 1, v.n),
                 !.paid = purchase[p].paid] IN
       purchase' = [purchase EXCEPT ![p] =
         IF v.code # "" THEN Replied(r, CreateNoticeEvent("error", v.code))
                        ELSE [r EXCEPT !.pc = "receive"]]
  /\ UNCHANGED <<clock, call, gatesMutex, openGates, timers, netAuth, tcClass, tcFilter>>
  /\ UNCHANGED <<config, customerSessions, redeemed, added, calc>>
  /\ UNCHANGED <<identities, payout>>
  /\ UNCHANGED trafficControl

\* merchant:234, 255-267: tollwallet.Receive redeems the token for some
\* amount; calculateAllotment prices it
RedeemOk(p) ==
  /\ purchase[p].pc = "receive"
  /\ purchase[p].paymentToken \notin redeemed
  /\ redeemed' = redeemed \cup {purchase[p].paymentToken}
  /\ \E amountAfterSwap \in AmountsReceived :
       LET a == calculateAllotment(config, amountAfterSwap, purchase[p].mint)
           r == [purchase[p] EXCEPT
                   !.amountAfterSwap = amountAfterSwap,
                   !.stages = purchase[p].stages \o <<"receive", "allotment">>] IN
         purchase' = [purchase EXCEPT ![p] =
           IF Failed(a.err)
             THEN Replied(r, CreateNoticeEvent("error", CodeAllotment))
             ELSE [r EXCEPT !.pc = "session", !.allotment = a.value]]
  /\ UNCHANGED <<clock, call, gatesMutex, openGates, timers, netAuth, tcClass, tcFilter>>
  /\ UNCHANGED <<config, customerSessions, added, calc>>
  /\ UNCHANGED <<identities, payout>>
  /\ UNCHANGED trafficControl

\* merchant:234-253: tollwallet.Receive fails
RedeemFails(p) ==
  /\ purchase[p].pc = "receive"
  /\ \E errText \in WalletErrors :
       purchase' = [purchase EXCEPT ![p] =
         Replied([purchase[p] EXCEPT !.recvErr = errText,
                                     !.stages = purchase[p].stages \o <<"receive">>],
                 CreateNoticeEvent("error", RedemptionCode(errText)))]
  /\ UNCHANGED <<clock, call, gatesMutex, openGates, timers, netAuth, tcClass, tcFilter>>
  /\ UNCHANGED <<config, customerSessions, redeemed, added, calc>>
  /\ UNCHANGED <<identities, payout>>
  /\ UNCHANGED trafficControl

\* ---------------------------------------------------------- session store

ErrNoSession == "session not found for MAC address"

\* merchant:881-891 (GetSessionWhileOpen: a lookup that finds a session
\* only while the gate has an entry for the device)
GetSessionWhileOpen(sessions, macAddress) ==
  IF macAddress \in DOMAIN sessions /\ macAddress \in DOMAIN openGates
    THEN [err |-> NoErr, session |-> sessions[macAddress]]
    ELSE [err |-> ErrNoSession, session |-> NoSession]

GetSession(sessions, macAddress) ==
  IF macAddress \in DOMAIN sessions
    THEN [err |-> NoErr, session |-> sessions[macAddress]]
    ELSE [err |-> ErrNoSession, session |-> NoSession]

\* merchant:900-905
NewSession(macAddress, metric, amount, now) ==
  [MacAddress |-> macAddress, StartTime |-> now, Metric |-> metric, Allotment |-> amount]

\* merchant:908-910 (ExtendSessionKeepStart: an extension that leaves the
\* start time; ExtendSessionReplace: one that overwrites the allotment)
ExtendSessionKeepStart(session, amount, now) ==
  [session EXCEPT !.Allotment = session.Allotment + amount]

ExtendSessionReplace(session, amount, now) ==
  [session EXCEPT !.Allotment = amount, !.StartTime = now]

ExtendSession(session, amount, now) ==
  [session EXCEPT !.Allotment = session.Allotment + amount, !.StartTime = now]

\* merchant:893-914: the whole of AddAllotment runs under sessionMu and calls
\* nothing but time.Now, so it is one step; it returns no error
AddAllotment(sessions, macAddress, metric, amount, now) ==
  [d \in (DOMAIN sessions) \cup {macAddress} |->
     IF d # macAddress THEN sessions[d]
     ELSE IF macAddress \in DOMAIN sessions
            THEN ExtendSession(sessions[macAddress], amount, now)
            ELSE NewSession(macAddress, metric, amount, now)]

\* merchant:269-282: the allotment is merged into the device's session; the
\* caller keeps the pointer AddAllotment returns
MergeSession(p) ==
  /\ purchase[p].pc = "session"
  /\ customerSessions' = AddAllotment(customerSessions, purchase[p].deviceIdentifier,
                                      "milliseconds", purchase[p].allotment, clock)
  /\ purchase' = [purchase EXCEPT
       ![p].pc = "expiry",
       ![p].session = customerSessions'[purchase[p].deviceIdentifier],
       ![p].stages = Append(purchase[p].stages, "session"),
       ![p].paid = [count |-> purchase[p].paid.count + 1,
                    sum |-> purchase[p].paid.sum + purchase[p].allotment,
                    at |-> clock,
                    lost |-> purchase[p].paid.lost]]
  /\ UNCHANGED <<clock, call, gatesMutex, openGates, timers, netAuth, tcClass, tcFilter>>
  /\ UNCHANGED <<config, redeemed, added, calc>>
  /\ UNCHANGED <<identities, payout>>
  /\ UNCHANGED trafficControl

\* AddAllotment called through MerchantInterface (merchant:45), not by
\* PurchaseSession
AddAllotmentCall(macAddress, metric, amount) ==
  /\ added' = added + 1
  /\ customerSessions' = AddAllotment(customerSessions, macAddress, metric, amount, clock)
  /\ UNCHANGED <<clock, call, gatesMutex, openGates, timers, netAuth, tcClass, tcFilter>>
  /\ UNCHANGED <<config, purchase, redeemed, calc>>
  /\ UNCHANGED <<identities, payout>>
  /\ UNCHANGED trafficControl

\* a call of AddAllotment from outside while fewer than limit have been made
BoundedAdd(limit, macAddress, metric, amount) ==
  added < limit /\ AddAllotmentCall(macAddress, metric, amount)

\* the session the pointer of p refers to: the entry of the map, which later
\* calls of AddAllotment change in place
Pointee(p) == customerSessions[purchase[p].deviceIdentifier]

\* merchant:287: endTimestamp once both fields have been read
\* (EndTimestampRoundedUp: a deadline that counts a begun second as a whole)
EndTimestampRoundedUp(startTime, sessionAllotment) ==
  startTime + ((sessionAllotment + 999) \div 1000)

EndTimestamp(startTime, sessionAllotment) == startTime + (sessionAllotment \div 1000)

\* merchant:286-287: session.StartTime is read without sessionMu
ReadStartTime(p) ==
  /\ purchase[p].pc = "expiry"
  /\ Pointee(p).Metric = "milliseconds"
  /\ purchase[p].startTime = Unread
  /\ LET st == Pointee(p).StartTime IN
       purchase' = [purchase EXCEPT
         ![p].startTime = st,
         ![p].pc = IF purchase[p].sessionAllotment = Unread THEN "expiry" ELSE "tier",
         ![p].endTimestamp = IF purchase[p].sessionAllotment = Unread THEN 0
                             ELSE EndTimestamp(st, purchase[p].sessionAllotment)]
  /\ UNCHANGED <<clock, call, gatesMutex, openGates, timers, netAuth, tcClass, tcFilter>>
  /\ UNCHANGED <<config, customerSessions, redeemed, added, calc>>
  /\ UNCHANGED <<identities, payout>>
  /\ UNCHANGED trafficControl

\* merchant:286-287: session.Allotment is read without sessionMu
ReadAllotment(p) ==
  /\ purchase[p].pc = "expiry"
  /\ Pointee(p).Metric = "milliseconds"
  /\ purchase[p].sessionAllotment = Unread
  /\ LET al == Pointee(p).Allotment IN
       purchase' = [purchase EXCEPT
         ![p].sessionAllotment = al,
         ![p].pc = IF purchase[p].startTime = Unread THEN "expiry" ELSE "tier",
         ![p].endTimestamp = IF purchase[p].startTime = Unread THEN 0
                             ELSE EndTimestamp(purchase[p].startTime, al)]
  /\ UNCHANGED <<clock, call, gatesMutex, openGates, timers, netAuth, tcClass, tcFilter>>
  /\ UNCHANGED <<config, customerSessions, redeemed, added, calc>>
  /\ UNCHANGED <<identities, payout>>
  /\ UNCHANGED trafficControl

\* merchant:288-291: a session of another metric lasts a day from now
DefaultExpiry(p) ==
  /\ purchase[p].pc = "expiry"
  /\ Pointee(p).Metric # "milliseconds"
  /\ purchase' = [purchase EXCEPT ![p].pc = "tier",
                                  ![p].endTimestamp = clock + DaySeconds]
  /\ UNCHANGED <<clock, call, gatesMutex, openGates, timers, netAuth, tcClass, tcFilter>>
  /\ UNCHANGED <<config, customerSessions, redeemed, added, calc>>
  /\ UNCHANGED <<identities, payout>>
  /\ UNCHANGED trafficControl

\* merchant:294-298: determineTier(amount), then valve.OpenGateUntil starts.
\* PurchaseSession declares no `amount` (its amount is amountAfterSwap): the
\* identifier can only be one of the package, which the payment does not set.
OpenGate(p) ==
  /\ purchase[p].pc = "tier"
  /\ \E amount \in TierAmounts :
       /\ purchase' = [purchase EXCEPT
            ![p].pc = "gate",
            ![p].amount = amount,
            ![p].tier = determineTier(amount),
            ![p].stages = Append(purchase[p].stages, "gate")]
       /\ Call(p, purchase[p].deviceIdentifier, purchase[p].endTimestamp,
               determineTier(amount))
  /\ UNCHANGED <<config, customerSessions, redeemed, added, calc>>
  /\ UNCHANGED <<identities, payout>>
  /\ UNCHANGED trafficControl

\* merchant:299-314 (GateReplyAlways: a reply that ignores the gate's error)
GateReplyAlways(err) == createSessionEvent

GateReply(err) ==
  IF Failed(err) THEN CreateNoticeEvent("error", CodeGate) ELSE createSessionEvent

\* merchant:299-306: the session store when OpenGateUntil has returned err;
\* the branch of the error builds the notice and returns
\* (SessionsAfterGateRolledBack: a branch that takes the allotment of the
\* payment out of the session again when the gate was not opened)
SessionsAfterGateRolledBack(sessions, macAddress, allotment, err) ==
  IF Failed(err) THEN [sessions EXCEPT ![macAddress].Allotment = @ - allotment]
                 ELSE sessions

SessionsAfterGate(sessions, macAddress, allotment, err) == sessions

\* merchant:298-314: OpenGateUntil has returned
Reply(p) ==
  /\ purchase[p].pc = "gate"
  /\ call[p].pc = "done"
  /\ purchase' = [purchase EXCEPT ![p] =
       Replied([purchase[p] EXCEPT !.paid.lost = @ \/ Failed(call[p].err)],
               GateReply(call[p].err))]
  /\ customerSessions' = SessionsAfterGate(customerSessions, purchase[p].deviceIdentifier,
                                           purchase[p].allotment, call[p].err)
  /\ UNCHANGED <<clock, call, gatesMutex, openGates, timers, netAuth, tcClass, tcFilter>>
  /\ UNCHANGED <<config, redeemed, added, calc>>
  /\ UNCHANGED <<identities, payout>>
  /\ UNCHANGED trafficControl

\* the steps of a PurchaseSession under way, those of its OpenGateUntil
\* included
Pipeline(p) ==
  \/ RedeemOk(p)
  \/ RedeemFails(p)
  \/ MergeSession(p)
  \/ ReadStartTime(p)
  \/ ReadAllotment(p)
  \/ DefaultExpiry(p)
  \/ OpenGate(p)
  \/ Reply(p)

\* a step of the OpenGateUntil that PurchaseSession p has called
GateStep(p) == purchase[p].pc = "gate" /\ Proceed(p)

\* One goroutine serves payment after payment while others call AddAllotment;
\* no timer fires.
NextPay ==
  \/ \E tags \in PaymentEvents(PayDevices) : PurchaseSession(1, tags)
  \/ Pipeline(1)
  \/ GateStep(1)
  \/ \E m \in PayDevices : BoundedAdd(MaxAdded, m, "bytes", OutsideAmount)
  \/ Tick

InitPay == \E cfg \in Configs : Start(cfg)

SpecPay == InitPay /\ [][NextPay]_vars

\* The payments of SpecPay while the timers of the gates run and fire.
NextSession ==
  \/ NextPay
  \/ TimerFires
  \/ CallbackDeauthorizes
  \/ CallbackRemovesBandwidth
  \/ CallbackDeletesEntry

SpecSession == InitPay /\ [][NextSession]_vars

\* a payment with a token of a mint that is not configured arrives
ForeignPayment == \E tags \in ForeignEvents(PayDevices) : PurchaseSession(1, tags)

\* The payments of SpecPay and those with a token of another mint.
NextForeign ==
  \/ NextPay
  \/ ForeignPayment

SpecForeign == InitPay /\ [][NextForeign]_vars

\* merchant:754-757, 758-761: between two calls the identities configuration
\* that configManager hands out may have become another one of ids
IdentitiesChange(ids) ==
  /\ \E other \in ids \ {identities} : identities' = other
  /\ UNCHANGED <<clock, call, gatesMutex, openGates, timers, netAuth, tcClass, tcFilter>>
  /\ UNCHANGED <<config, customerSessions, purchase, redeemed, added, calc, payout>>
  /\ UNCHANGED trafficControl

\* the identities configurations of SpecSign: the one of construction, one
\* without the merchant identity and none at all
SignIdentities ==
  {GoodIdentities, [GoodIdentities EXCEPT !.merchant = FALSE],
   [GoodIdentities EXCEPT !.present = FALSE]}

\* The payments of SpecPay while the identities configuration changes.
NextSign ==
  \/ NextPay
  \/ IdentitiesChange(SignIdentities)

SpecSign == InitPay /\ [][NextSign]_vars

\* ------------------------------------------------------ InitTrafficControl

ErrTcShow == "failed to check tc qdisc"

ErrTcAdd == "failed to add HTB qdisc"

ErrTcClass == "failed to add root class"

\* what `tc qdisc show dev br-lan` prints, as the fragments of its text
ShowOutput(qdisc) ==
  IF qdisc = "htb" THEN <<"qdisc ", "htb", " 1: root refcnt 2 r2q 10 default 0x1">>
  ELSE IF qdisc = "other" THEN <<"qdisc ", "fq_codel", " 0: root refcnt 2 limit 10240p">>
  ELSE <<"qdisc ", "noqueue", " 0: root refcnt 2">>

\* valve.go:131: strings.Contains(string(output), "htb")
\* (AlreadyInitializedNever: a check that never finds the HTB root)
AlreadyInitializedNever(output) == FALSE

AlreadyInitialized(output) == Contains(output, "htb")

\* the call of InitTrafficControl has run a command
Ran(tc, cmd) == [tc EXCEPT !.cmds = Append(tc.cmds, cmd)]

\* valve.go:122-134, 157-159: InitTrafficControl is called and runs
\* `tc qdisc show`; it returns the error when the command fails and nil
\* when the output names an HTB
InitTrafficControl ==
  /\ trafficControl.pc = "idle"
  /\ trafficControl.calls < TcCalls
  /\ \E showOk \in BOOLEAN :
       LET begun == [trafficControl EXCEPT
                       !.calls = trafficControl.calls + 1,
                       !.cmds = <<"qdisc show">>,
                       !.before = [qdisc |-> trafficControl.qdisc,
                                   rootClass |-> trafficControl.rootClass],
                       !.okBefore = trafficControl.okBefore \/
                                      (trafficControl.calls > 0 /\ trafficControl.err = NoErr),
                       !.sawHTB = FALSE,
                       !.err = NoErr] IN
         trafficControl' =
           IF ~showOk THEN [begun EXCEPT !.err = ErrTcShow]
           ELSE IF AlreadyInitialized(ShowOutput(trafficControl.qdisc))
             THEN [begun EXCEPT !.sawHTB = TRUE]
             ELSE [begun EXCEPT !.pc = "del"]
  /\ UNCHANGED <<clock, call, gatesMutex, openGates, timers, netAuth, tcClass, tcFilter>>
  /\ UNCHANGED merchantVars

\* valve.go:136-138: `tc qdisc del dev br-lan root`, its error ignored; the
\* classes and filters below a deleted root go with it
TcDeleteRoot ==
  /\ trafficControl.pc = "del"
  /\ \E ok \in BOOLEAN :
       IF ok /\ trafficControl.qdisc # "none"
         THEN /\ trafficControl' = [Ran(trafficControl, "qdisc del") EXCEPT
                    !.qdisc = "none", !.rootClass = FALSE, !.pc = "add"]
              /\ tcClass' = {}
              /\ tcFilter' = {}
         ELSE /\ trafficControl' = [Ran(trafficControl, "qdisc del") EXCEPT !.pc = "add"]
              /\ UNCHANGED <<tcClass, tcFilter>>
  /\ UNCHANGED <<clock, call, gatesMutex, openGates, timers, netAuth>>
  /\ UNCHANGED merchantVars

\* valve.go:140-144: `tc qdisc add dev br-lan root handle 1: htb default 1`,
\* which cannot succeed while there is a root qdisc
TcAddQdisc ==
  /\ trafficControl.pc = "add"
  /\ \E ok \in BOOLEAN :
       trafficControl' =
         IF ok /\ trafficControl.qdisc = "none"
           THEN [Ran(trafficControl, "qdisc add") EXCEPT !.qdisc = "htb", !.pc = "class"]
           ELSE [Ran(trafficControl, "qdisc add") EXCEPT !.err = ErrTcAdd, !.pc = "idle"]
  /\ UNCHANGED <<clock, call, gatesMutex, openGates, timers, netAuth, tcClass, tcFilter>>
  /\ UNCHANGED merchantVars

\* valve.go:146-154: `tc class add ... classid 1:1 htb rate 1000mbit`
TcAddRootClass ==
  /\ trafficControl.pc = "class"
  /\ \E ok \in BOOLEAN :
       trafficControl' =
         IF ok
           THEN [Ran(trafficControl, "class add") EXCEPT !.rootClass = TRUE, !.pc = "idle"]
           ELSE [Ran(trafficControl, "class add") EXCEPT !.err = ErrTcClass, !.pc = "idle"]
  /\ UNCHANGED <<clock, call, gatesMutex, openGates, timers, netAuth, tcClass, tcFilter>>
  /\ UNCHANGED merchantVars

\* InitTrafficControl is called again and again on an interface in any of
\* its starting states.
NextTc ==
  \/ InitTrafficControl
  \/ TcDeleteRoot
  \/ TcAddQdisc
  \/ TcAddRootClass

InitTc == \E tc \in TcStarts : Begin(TrailsConfig, NoCalc, tc)

SpecTc == InitTc /\ [][NextTc]_vars

\* ------------------------------------------------------------- payouts

\* the mint whose goroutine is modelled (merchant:120-128)
PayoutMint == config.AcceptedMints[1]

\* what stays of a tick when the next begins: the entries whose payout failed
FailedShares(po) ==
  po.failedBefore \cup {po.melts[k].share : k \in {j \in 1..Len(po.melts) : ~po.melts[j].ok}}

\* merchant:125-153: the ticker fires and processPayout reads the balance;
\* below MinPayoutAmount, or without identities, it returns
PayoutTick ==
  /\ payout.pc = "idle"
  /\ payout.ticks < MaxTicks
  /\ \E balance \in Balances :
       LET begun == [IdlePayout EXCEPT !.ticks = payout.ticks + 1,
                                       !.balance = balance,
                                       !.failedBefore = FailedShares(payout)] IN
         payout' =
           IF balance < PayoutMint.MinPayoutAmount THEN begun
           ELSE IF ~identities.present
             THEN [begun EXCEPT !.aimedPaymentAmount =
                                  UnsignedSub(balance, PayoutMint.MinBalance)]
             ELSE [begun EXCEPT !.aimedPaymentAmount =
                                  UnsignedSub(balance, PayoutMint.MinBalance),
                                !.pc = "shares"]
  /\ UNCHANGED <<clock, call, gatesMutex, openGates, timers, netAuth, tcClass, tcFilter>>
  /\ UNCHANGED <<config, customerSessions, purchase, redeemed, added, calc, identities>>
  /\ UNCHANGED trafficControl

\* the loop of merchant:155-164 has passed entry i and stands before entry
\* next; after the last entry processPayout returns
Advance(po, next) ==
  IF next > Len(config.ProfitShare)
    THEN [po EXCEPT !.i = next,
                    !.pc = AfterTick(\E k \in 1..Len(po.melts) : ~po.melts[k].ok)]
    ELSE [po EXCEPT !.i = next]

\* merchant:155-162: the payee of entry i does not resolve
SkipShare ==
  /\ payout.pc = "shares"
  /\ config.ProfitShare[payout.i].Identity \notin identities.public
  /\ payout' = Advance([payout EXCEPT !.skipped = payout.skipped \cup {payout.i}],
                       AfterUnresolved(payout.i, Len(config.ProfitShare)))
  /\ UNCHANGED <<clock, call, gatesMutex, openGates, timers, netAuth, tcClass, tcFilter>>
  /\ UNCHANGED <<config, customerSessions, purchase, redeemed, added, calc, identities>>
  /\ UNCHANGED trafficControl

\* merchant:155-164 with PayoutShare 169-182: the payee resolves and
\* MeltToLightning is called, which succeeds or fails
PayoutShare ==
  /\ payout.pc = "shares"
  /\ config.ProfitShare[payout.i].Identity \in identities.public
  /\ \E ok \in BOOLEAN :
       LET profitShare == config.ProfitShare[payout.i]
           aimedAmount == ShareAmount(payout.aimedPaymentAmount, profitShare.Factor)
           melt == [share |-> payout.i,
                    amount |-> aimedAmount,
                    maxCost |-> MaxCost(aimedAmount, PayoutMint.BalanceTolerancePercent),
                    address |-> profitShare.Identity,
                    ok |-> ok] IN
         payout' = Advance([payout EXCEPT !.melts = Append(payout.melts, melt)],
                           payout.i + 1)
  /\ UNCHANGED <<clock, call, gatesMutex, openGates, timers, netAuth, tcClass, tcFilter>>
  /\ UNCHANGED <<config, customerSessions, purchase, redeemed, added, calc, identities>>
  /\ UNCHANGED trafficControl

\* The payout goroutine of the mint ticks while the identities configuration
\* changes.
NextPayout ==
  \/ PayoutTick
  \/ SkipShare
  \/ PayoutShare
  \/ IdentitiesChange(PayoutIdentities)

InitPayout == \E cfg \in PayoutConfigs : Start(cfg)

SpecPayout == InitPayout /\ [][NextPayout]_vars

\* The same goroutine under any configuration of ThresholdConfigs.
InitThreshold == \E cfg \in ThresholdConfigs : Start(cfg)

SpecThreshold == InitThreshold /\ [][NextPayout]_vars

\* The goroutines of Payers serve payments for one device concurrently while
\* others call AddAllotment; the clock stands still and no timer fires.
NextPayConc ==
  \/ \E p \in Payers, tags \in ConcEvents : PurchaseSession(p, tags)
  \/ \E p \in Payers : Pipeline(p)
  \/ \E p \in Payers : GateStep(p)
  \/ \E m \in PayDevices, metric \in Metrics : BoundedAdd(MaxAdded, m, metric, 50)

SpecPayConc == Init /\ [][NextPayConc]_vars

\* Only the session store is used: AddAllotment is called for any device,
\* metric and amount while the clock runs.
NextStore ==
  \/ \E m \in Devices, metric \in Metrics, amount \in DirectAmounts :
       BoundedAdd(StoreCalls, m, metric, amount)
  \/ Tick

SpecStore == Init /\ [][NextStore]_vars

\* ------------------------------------------------------------ properties

TimersOf(d) == {t \in TimerIds : timers[t].macAddress = d}

Newest(d) == CHOOSE t \in TimersOf(d) : \A u \in TimersOf(d) : u <= t

\* the states of a timer whose callback has started and not returned
Firing == {"deauth", "rmbw", "delete"}

\* a timer that is installed and has neither been stopped nor finished firing
LiveTimers(d) == {t \in TimersOf(d) : timers[t].state \in {"pending"} \cup Firing}

PendingTimers(d) == {t \in TimersOf(d) : timers[t].state = "pending"}

\* a callback of the device is past its `ndsctl deauth` and has not yet
\* deleted the device's entry
Expiring(d) == \E t \in TimersOf(d) : timers[t].state \in {"rmbw", "delete"}

\* C1: in every reachable state each device has at most one live expiry timer
\* (installed, not stopped, callback not finished).
C1_AtMostOneLiveTimer ==
  \A d \in Devices : Cardinality(LiveTimers(d)) <= 1

\* C2: when a Stop raced with a timer's running callback and that callback has
\* finished, an OpenGateUntil for the same device that then returns success
\* leaves exactly one live timer for the device and the device authorized.
C2_ReauthorizeAfterRace ==
  [][\A c \in Callers, d \in Devices :
       ( /\ call[c].pc = "timer"
         /\ call[c].macAddress = d
         /\ call'[c].pc = "done"
         /\ call'[c].err = NoErr
         /\ \E t \in TimersOf(d) : timers[t].raced /\ timers[t].state = "done" )
       => ( /\ Cardinality(LiveTimers(d)') = 1
            /\ netAuth'[d] )]_vars

\* C3: in every reachable state a device with an entry in openGates is
\* authorized at the network layer.
C3_EntryImpliesAuthorized ==
  \A d \in DOMAIN openGates : netAuth[d]

\* C3 (amended): a device with an entry in openGates is authorized at the
\* network layer unless a timer callback of the device has issued its
\* deauthorization and has not yet removed the entry.
C3_EntryImpliesAuthorizedUnlessExpiring ==
  \A d \in DOMAIN openGates : ~Expiring(d) => netAuth[d]

C3_Witness ==
  \E d \in DOMAIN openGates :
    /\ ~Expiring(d)
    /\ netAuth[d]
    /\ \E t \in TimersOf(d) : timers[t].state = "done"
    /\ timers[openGates[d]].state = "pending"

\* C4: a call with untilTimestamp <= now returns the past-deadline error at
\* once: it never reaches the mutex, the external commands or the timer, and
\* the map, the timers, the network state and the tc rules are unchanged.
C4_PastDeadlineNoEffect ==
  [][\A c \in Callers :
       ( /\ call[c].pc \in Resting
         /\ call'[c] # call[c]
         /\ call'[c].untilTimestamp <= call'[c].now )
       => ( /\ call'[c].pc = "done"
            /\ call'[c].err = ErrPast
            /\ call'[c].timer = NoTimer
            /\ UNCHANGED <<gatesMutex, openGates, timers, netAuth, tcClass, tcFilter>> )]_vars

C4_Witness ==
  \E c \in Callers :
    /\ call[c].pc = "done"
    /\ call[c].err = ErrPast
    /\ call[c].untilTimestamp < call[c].now
    /\ call[c].macAddress \notin DOMAIN openGates
    /\ \E t \in TimersOf(call[c].macAddress) : timers[t].state = "done"

\* C5: when the device has no entry and `ndsctl auth` fails, the call returns
\* an error in that very step: no timer, no entry, no tc command, and the
\* network state is as before.
C5_AuthorizeFailureNoEffect ==
  [][\A c \in Callers :
       ( /\ call[c].pc = "locked"
         /\ ~call[c].exists
         /\ call'[c].authErr # NoErr )
       => ( /\ call'[c].pc = "done"
            /\ call'[c].err # NoErr
            /\ call'[c].timer = NoTimer
            /\ gatesMutex' = Unlocked
            /\ UNCHANGED <<openGates, timers, netAuth, tcClass, tcFilter>> )]_vars

C5_Witness ==
  \E c \in Callers :
    /\ call[c].pc = "done"
    /\ call[c].authErr # NoErr
    /\ call[c].err = ErrAuthorize
    /\ call[c].macAddress \notin DOMAIN openGates
    /\ LiveTimers(call[c].macAddress) = {}

\* no timer of the device other than the newest has started its callback
OnlyNewestMayHaveFired(d) ==
  \A t \in TimersOf(d) \ {Newest(d)} : timers[t].state \in {"pending", "stopped"}

\* C6: after OpenGateUntil(d, t1) and then OpenGateUntil(d, t2), the second
\* before the first timer fired, the timer of the second call is the only live
\* timer of d and the entry of d, and no deauthorization of d is issued by
\* another timer or before t2.
C6_ExtensionKeepsOneTimer ==
  \A d \in Devices :
    (Cardinality(TimersOf(d)) >= 2 /\ OnlyNewestMayHaveFired(d)) =>
      LET last == Newest(d) IN
        /\ timers[last].state \in {"pending"} \cup Firing => LiveTimers(d) = {last}
        /\ timers[last].state = "pending" =>
             d \in DOMAIN openGates /\ openGates[d] = last
        /\ \A t \in TimersOf(d) :
             timers[t].state \in Firing \cup {"done"} =>
               t = last /\ clock >= timers[t].untilTimestamp

C6_Witness ==
  \E d \in Devices :
    /\ Cardinality(TimersOf(d)) >= 2
    /\ OnlyNewestMayHaveFired(d)
    /\ timers[Newest(d)].state = "pending"
    /\ \E t \in TimersOf(d) :
         /\ timers[t].state = "stopped"
         /\ timers[t].untilTimestamp < timers[Newest(d)].untilTimestamp
    /\ \A c \in Callers : call[c].pc \in Resting

\* C7: no external command (ndsctl, tc) is in progress while gatesMutex is
\* held.
C7_ExternalCallsOutsideLock ==
  \A c \in Callers :
    ((call[c].pc = "locked" /\ ~call[c].exists) \/ call[c].pc = "setbw")
      => gatesMutex # c

\* the tc rules setBandwidthLimit aims at for the tier
LimitInForce(d, tier) ==
  IF bandwidthLimits[tier] = 0
    THEN d \notin tcFilter /\ getClassID(d) \notin tcClass
    ELSE d \in tcFilter /\ getClassID(d) \in tcClass

\* C8: when OpenGateUntil(d, t, tier) returns success and none of its tc
\* commands failed, the bandwidth limit in force for d is the one of tier,
\* whether d had an entry or not.
C8_TierLimitAfterSuccess ==
  [][\A c \in Callers, d \in Devices, tier \in DOMAIN bandwidthLimits :
       ( /\ call[c].pc = "timer"
         /\ call[c].macAddress = d
         /\ call[c].tier = tier
         /\ ~call[c].bwFailed
         /\ call'[c].pc = "done"
         /\ call'[c].err = NoErr )
       => LimitInForce(d, tier)']_vars

\* C9: whatever the outcome of setBandwidthLimit and its tc commands, the call
\* goes on to install its timer, and it returns nil with its own pending timer
\* as the device's entry, whether a tc command failed or not.
C9_BandwidthFailuresIgnored ==
  [][\A c \in Callers :
       /\ (call[c].pc = "setbw" /\ call'[c] # call[c]) =>
            /\ call'[c].pc = "timer"
            /\ call'[c].err = NoErr
            /\ UNCHANGED <<gatesMutex, openGates, timers, netAuth>>
       /\ (call[c].pc = "timer" /\ call'[c] # call[c]) =>
            /\ call'[c].pc = "done"
            /\ call'[c].err = NoErr
            /\ call'[c].bwFailed = call[c].bwFailed
            /\ openGates'[call[c].macAddress] = call'[c].timer
            /\ timers'[call'[c].timer].state = "pending"
            /\ netAuth' = netAuth]_vars

C9_Witness ==
  \E c \in Callers :
    /\ call[c].pc = "done"
    /\ call[c].bwFailed
    /\ call[c].err = NoErr
    /\ call[c].macAddress \in DOMAIN openGates
    /\ openGates[call[c].macAddress] = call[c].timer
    /\ netAuth[call[c].macAddress]

\* C10: as long as no timer has fired, the devices with an entry are exactly
\* the devices for which a call installed a timer, and each entry holds the
\* newest timer of its own device: concurrent calls lose no update.
C10_NoLostUpdates ==
  (\A t \in TimerIds : timers[t].state \in {"pending", "stopped"}) =>
    /\ DOMAIN openGates = {d \in Devices : TimersOf(d) # {}}
    /\ \A d \in DOMAIN openGates : openGates[d] = Newest(d)

C10_Witness ==
  /\ \A t \in TimerIds : timers[t].state = "pending"
  /\ \A c \in Callers :
       /\ call[c].pc = "done"
       /\ call[c].err = NoErr
       /\ call[c].macAddress \in DOMAIN openGates
       /\ openGates[call[c].macAddress] = call[c].timer
  /\ \A c1 \in Callers, c2 \in Callers :
       c1 # c2 => call[c1].macAddress # call[c2].macAddress
  /\ Cardinality(DOMAIN openGates) = NumCallers

\* --------------------------------------------- the functions on their own

\* merchant:798-808 applied to the amount
ApplyDetermineTier ==
  /\ "determineTier" \notin calc.applied
  /\ calc' = [calc EXCEPT !.applied = calc.applied \cup {"determineTier"},
                          !.tier = determineTier(calc.amount)]
  /\ UNCHANGED <<clock, call, gatesMutex, openGates, timers, netAuth, tcClass, tcFilter>>
  /\ UNCHANGED <<config, customerSessions, purchase, redeemed, added>>
  /\ UNCHANGED <<identities, payout>>
  /\ UNCHANGED trafficControl

\* merchant:393-422 applied to the amount and the mint
ApplyCalculateAllotment ==
  /\ "calculateAllotment" \notin calc.applied
  /\ LET a == calculateAllotment(config, calc.amount, calc.mintURL) IN
       calc' = [calc EXCEPT !.applied = calc.applied \cup {"calculateAllotment"},
                            !.value = a.value, !.err = a.err]
  /\ UNCHANGED <<clock, call, gatesMutex, openGates, timers, netAuth, tcClass, tcFilter>>
  /\ UNCHANGED <<config, customerSessions, purchase, redeemed, added>>
  /\ UNCHANGED <<identities, payout>>
  /\ UNCHANGED trafficControl

NextCalc ==
  \/ ApplyDetermineTier
  \/ ApplyCalculateAllotment

\* any configuration of CalcConfigs, any amount up to MaxAmount, a mint the
\* configuration names or another
InitCalc ==
  \E cfg \in CalcConfigs, amount \in 0..MaxAmount, mintURL \in {MintA, MintX} :
    Begin(cfg, [NoCalc EXCEPT !.amount = amount, !.mintURL = mintURL], TcReady)

SpecCalc == InitCalc /\ [][NextCalc]_vars
\* valve.go:104-118 applied to the two texts
ApplyGetClassID ==
  /\ "getClassID" \notin calc.applied
  /\ calc' = [calc EXCEPT !.applied = calc.applied \cup {"getClassID"},
                          !.classID = [k \in 1..2 |-> getClassIDOfText(calc.macAddress[k])]]
  /\ UNCHANGED <<clock, call, gatesMutex, openGates, timers, netAuth, tcClass, tcFilter>>
  /\ UNCHANGED <<config, customerSessions, purchase, redeemed, added>>
  /\ UNCHANGED <<identities, payout>>
  /\ UNCHANGED trafficControl

NextClass == ApplyGetClassID

\* any two of the texts
InitClass ==
  \E first \in MacTexts, second \in MacTexts :
    Begin(TrailsConfig,
          [macAddress |-> <<first, second>>, applied |-> {}, classID |-> <<0, 0>>],
          TcReady)

SpecClass == InitClass /\ [][NextClass]_vars


\* the callback of timer t takes a step
CallbackStep(t) == t \in TimerIds /\ timers'[t].state # timers[t].state

\* the steps of a callback after its deauthorization: tc filter and class of
\* the device are deleted and nothing else, then the entry of the device is
\* deleted while no caller holds gatesMutex
RemovalThenDelete(t) ==
  LET d == timers[t].macAddress IN
    /\ (timers[t].state = "rmbw" /\ CallbackStep(t)) =>
         /\ timers'[t].state = "delete"
         /\ tcFilter' \in {tcFilter, tcFilter \ {d}}
         /\ tcClass' \in {tcClass, tcClass \ {getClassID(d)}}
         /\ UNCHANGED <<openGates, netAuth, gatesMutex>>
    /\ (timers[t].state = "delete" /\ CallbackStep(t)) =>
         /\ timers'[t].state = "done"
         /\ gatesMutex = Unlocked /\ gatesMutex' = Unlocked
         /\ d \notin DOMAIN openGates'
         /\ UNCHANGED <<netAuth, tcClass, tcFilter>>

\* C20: every firing of a timer issues `ndsctl deauth`, then the removal of
\* the device's bandwidth limit, then deletes the device's entry under
\* gatesMutex, in this order.
C20_FiringOrder ==
  [][\A t \in TimerIds :
       /\ (timers[t].state = "pending" /\ CallbackStep(t)) =>
            timers'[t].state \in {"deauth", "stopped"}
       /\ (timers[t].state = "deauth" /\ CallbackStep(t)) =>
            timers'[t].state = "rmbw"
       /\ RemovalThenDelete(t)]_vars

\* C20 (amended): every firing of a timer issues `ndsctl deauth`; when that
\* succeeded the removal of the device's bandwidth limit follows, when it
\* failed the removal is skipped and the network state is as before; in both
\* cases the device's entry is deleted under gatesMutex afterwards.
C20_FiringOrderUnlessDeauthFails ==
  [][\A t \in TimerIds :
       /\ (timers[t].state = "pending" /\ CallbackStep(t)) =>
            timers'[t].state \in {"deauth", "stopped"}
       /\ (timers[t].state = "deauth" /\ CallbackStep(t)) =>
            /\ UNCHANGED <<openGates, tcClass, tcFilter, gatesMutex>>
            /\ \/ timers'[t].state = "rmbw" /\ ~netAuth'[timers[t].macAddress]
               \/ timers'[t].state = "delete" /\ netAuth' = netAuth
       /\ RemovalThenDelete(t)]_vars

\* a firing has run to its end: the device is deauthorized, its tc rules and
\* its entry are gone
C20_Witness ==
  \E t \in TimerIds :
    LET d == timers[t].macAddress IN
      /\ timers[t].state = "done"
      /\ ~netAuth[d]
      /\ d \notin tcFilter /\ getClassID(d) \notin tcClass
      /\ d \notin DOMAIN openGates

\* ------------------------------------------------ properties of payments

\* what a payment event lacks, read off its tags
TokenMissing(tags) ==
  ~\E i \in 1..Len(tags) : tags[i][1] = "payment" /\ Len(tags[i]) >= 2

DeviceMissing(tags) ==
  ~\E i \in 1..Len(tags) : tags[i][1] = "device-identifier" /\ Len(tags[i]) >= 3

TokenOf(tags) ==
  tags[CHOOSE i \in 1..Len(tags) : tags[i][1] = "payment" /\ Len(tags[i]) >= 2][2]

DeviceOf(tags) ==
  tags[CHOOSE i \in 1..Len(tags) :
         tags[i][1] = "device-identifier" /\ Len(tags[i]) >= 3][3]

\* the tokens of the wallet's format
Decodable == {"cashuA1", "cashuA2", "cashuX1"}

\* the number of the first of stages 1 to 4 the event fails (0: none)
FailingStage(tags) ==
  IF TokenMissing(tags) THEN 1
  ELSE IF DeviceMissing(tags) THEN 2
  ELSE IF DeviceOf(tags) \notin Devices THEN 3
  ELSE IF TokenOf(tags) \notin Decodable THEN 4
  ELSE 0

StageCodes ==
  <<{CodeToken}, {CodeDevice}, {CodeMac}, {CodeDecode}, {CodeSpent, CodeProcessing},
    {CodeAllotment}, {CodeSession}, {CodeGate}>>

ErrorNotice(r, codes) ==
  r.reply.kind = "notice" /\ r.reply.level = "error" /\ r.reply.code \in codes

\* the session store, the wallet and the gate are as they were
NothingElseDone ==
  UNCHANGED <<customerSessions, redeemed, call, gatesMutex, openGates, timers,
              netAuth, tcClass, tcFilter>>

C12_RedeemOnlyAfterValidation ==
  [][(redeemed' # redeemed) =>
       \E p \in Callers :
         /\ purchase[p].pc = "receive"
         /\ purchase'[p] # purchase[p]
         /\ FailingStage(purchase[p].event) = 0
         /\ "receive" \notin {purchase[p].stages[i] : i \in 1..Len(purchase[p].stages)}
         /\ redeemed' = redeemed \cup {TokenOf(purchase[p].event)}]_vars

\* after a redemption, a payment with an undecodable token has been answered
\* and the wallet holds what it held
C12_Witness ==
  \E p \in Callers :
    /\ purchase[p].pc = "done"
    /\ FailingStage(purchase[p].event) = 4
    /\ redeemed = {"cashuA1"}

\* the errors of the wallet that say the token is spent
SpentErrors == {e \in WalletErrors : \E i \in 1..Len(e) : e[i] = SpentMarker}

\* C13: when the redemption failed, the code of the notice is
\* payment-error-token-spent exactly when the wallet's error says the token is
\* already spent, and payment-processing-failed for every other error.
C13_SpentOrProcessingFailed ==
  \A p \in Callers :
    (purchase[p].pc = "done" /\ purchase[p].recvErr # << >>) =>
      /\ purchase[p].reply.kind = "notice"
      /\ purchase[p].recvErr \in SpentErrors => purchase[p].reply.code = CodeSpent
      /\ purchase[p].recvErr \notin SpentErrors => purchase[p].reply.code = CodeProcessing

C13_Witness ==
  \E p \in Callers :
    /\ purchase[p].pc = "done"
    /\ purchase[p].recvErr = <<"failed to receive: ", SpentMarker>>
    /\ purchase[p].reply.code = CodeSpent

\* C14: AddAllotment(device, metric, amount) creates the session of a device
\* that has none with start time now and allotment amount; for a device that
\* has one, the allotment becomes the old allotment plus amount and the start
\* time becomes now, whatever has elapsed; other sessions are untouched.
C14_AddAllotmentAccumulates ==
  [][\A m \in Devices, metric \in Metrics, amount \in DirectAmounts :
       AddAllotmentCall(m, metric, amount) =>
         /\ m \in DOMAIN customerSessions'
         /\ m \notin DOMAIN customerSessions =>
              customerSessions'[m] =
                [MacAddress |-> m, StartTime |-> clock, Metric |-> metric,
                 Allotment |-> amount]
         /\ m \in DOMAIN customerSessions =>
              /\ customerSessions'[m].Allotment = customerSessions[m].Allotment + amount
              /\ customerSessions'[m].StartTime = clock
              /\ customerSessions'[m].Metric = customerSessions[m].Metric
              /\ customerSessions'[m].MacAddress = m
         /\ \A d \in DOMAIN customerSessions' \ {m} :
              d \in DOMAIN customerSessions /\ customerSessions'[d] = customerSessions[d]]_vars

\* 100 at time 0 and 50 at time 1 have made a session of 150 that starts at 1
C14_Witness ==
  \E d \in DOMAIN customerSessions :
    /\ added = 2
    /\ clock = 1
    /\ customerSessions[d] =
         [MacAddress |-> d, StartTime |-> 1, Metric |-> "milliseconds", Allotment |-> 150]

\* C15: whatever AddAllotment and PurchaseSession calls run, one after the
\* other or concurrently, every session is the one record of its own device
\* identifier, no session disappears and no device's accumulated allotment
\* decreases.
C15_OneSessionAllotmentGrows ==
  [][/\ \A d \in DOMAIN customerSessions :
          /\ d \in DOMAIN customerSessions'
          /\ customerSessions'[d].Allotment >= customerSessions[d].Allotment
     /\ \A d \in DOMAIN customerSessions' : customerSessions'[d].MacAddress = d]_vars

\* two concurrent payments and a call from outside have all been merged into
\* the one session of the device
C15_Witness ==
  \E d \in DOMAIN customerSessions :
    /\ \A p \in Payers :
         purchase[p].pc \in {"expiry", "tier"} /\ purchase[p].deviceIdentifier = d
    /\ added = 1
    /\ customerSessions[d].Allotment =
         purchase[1].allotment + purchase[2].allotment + 50
    /\ DOMAIN customerSessions = {d}

\* C16: when PurchaseSession calls OpenGateUntil, the deadline it passes is,
\* for a session in milliseconds, the start time of the session as this
\* payment's AddAllotment left it plus floor(its allotment / 1000) seconds, and
\* for a session of another metric a day after the time of the computation.
C16_DeadlineFromUpdatedSession ==
  \A p \in Callers :
    purchase[p].pc = "gate" =>
      LET session == purchase[p].session IN
        IF session.Metric = "milliseconds"
          THEN purchase[p].endTimestamp =
                 session.StartTime + (session.Allotment \div 1000)
          ELSE purchase[p].endTimestamp \in {now + DaySeconds : now \in 0..clock}

\* C18: the tier PurchaseSession passes to OpenGateUntil depends on the amount
\* redeemed for the payment alone: two payments that redeemed the same amount
\* pass the same tier.
C18_TierFromRedeemedAmount ==
  \A p \in Callers, q \in Callers :
    ( /\ purchase[p].pc = "gate"
      /\ purchase[q].pc = "gate"
      /\ purchase[p].amountAfterSwap = purchase[q].amountAfterSwap )
    => purchase[p].tier = purchase[q].tier

\* the merchant identity is there to sign with
CanSign == identities.present /\ identities.merchant

\* C21: a call of PurchaseSession that cannot sign its notice or session event
\* returns an error and no event; every other call returns one event, a notice
\* or a session, and no error.
C21_ErrorIffSigningFails ==
  [][\A p \in Callers :
       (purchase'[p].pc = "done" /\ purchase'[p] # purchase[p]) =>
         IF CanSign
           THEN /\ purchase'[p].err = NoErr
                /\ purchase'[p].reply.kind \in {"notice", "session"}
           ELSE /\ purchase'[p].err # NoErr
                /\ purchase'[p].reply = NoReply]_vars

\* the gate was opened, the session event could not be signed and the call
\* returned the error
C21_Witness ==
  /\ purchase[1].pc = "done"
  /\ purchase[1].err = ErrSign
  /\ purchase[1].reply = NoReply
  /\ purchase[1].stages = StageOrder
  /\ ~CanSign

\* ------------------------------------------------- properties of payouts

\* the balance the tick has read leaves aimed to distribute
AimedOfTick == payout.balance - PayoutMint.MinBalance

\* the calls of MeltToLightning of the tick
Melts == {payout.melts[k] : k \in 1..Len(payout.melts)}

\* C22: a tick that reads a balance below MinPayoutAmount attempts no payout;
\* any other tick distributes aimed = balance - MinBalance, and the amount of
\* every payout is aimed times the entry's factor, rounded to the nearest
\* integer (halves upwards).
C22_SkipOrRoundedShares ==
  payout.ticks > 0 =>
    /\ payout.balance < PayoutMint.MinPayoutAmount =>
          payout.melts = << >> /\ payout.pc = "idle"
    /\ payout.balance >= PayoutMint.MinPayoutAmount =>
          /\ payout.aimedPaymentAmount = AimedOfTick
          /\ \A melt \in Melts :
               LET quarters == config.ProfitShare[melt.share].Factor IN
                 /\ 2 * AimedOfTick * quarters - 4 < 8 * melt.amount
                 /\ 8 * melt.amount <= 2 * AimedOfTick * quarters + 4

\* of 7 sats a share of one half was paid out as 4
C22_Witness ==
  /\ payout.balance = 9
  /\ \E melt \in Melts :
       config.ProfitShare[melt.share].Factor = 2 /\ melt.amount = 4

\* floor(amount * percent / 100)
PercentOf(amount, percent) ==
  CHOOSE t \in 0..(amount * percent) :
    100 * t <= amount * percent /\ amount * percent < 100 * (t + 1)

C24_UnresolvedShareSkipped ==
  [][(payout.pc = "shares" /\ payout' # payout) =>
       LET i == payout.i IN
         /\ payout'.i = i + 1
         /\ IF config.ProfitShare[i].Identity \in identities.public
              THEN /\ Len(payout'.melts) = Len(payout.melts) + 1
                   /\ SubSeq(payout'.melts, 1, Len(payout.melts)) = payout.melts
                   /\ payout'.melts[Len(payout'.melts)].share = i
                   /\ payout'.skipped = payout.skipped
              ELSE /\ payout'.melts = payout.melts
                   /\ payout'.skipped = payout.skipped \cup {i}
         /\ (payout'.pc = "idle") <=> (i = Len(config.ProfitShare))
         /\ payout'.pc \in {"idle", "shares"}]_vars

\* a tick over three entries has ended: the second was passed over, the first
\* and the third were paid out
C24_Witness ==
  /\ payout.pc = "idle"
  /\ payout.skipped = {2}
  /\ Len(payout.melts) = 2
  /\ payout.melts[1].share = 1
  /\ payout.melts[2].share = 3

\* C25: a failed payout is not repeated within its tick and stops nothing:
\* the goroutine goes on to the next entry and the next tick, and a tick that
\* reads a balance of MinPayoutAmount or more (the identities being there)
\* starts over with aimed = balance - MinBalance of this balance and no
\* payout made yet, whatever failed before.
C25_FailureAbandonedAndRetried ==
  /\ [](/\ payout.pc \in {"idle", "shares"}
        /\ \A j, k \in 1..Len(payout.melts) :
             j < k => payout.melts[j].share < payout.melts[k].share)
  /\ [][payout'.ticks # payout.ticks =>
          /\ payout.pc = "idle"
          /\ payout'.ticks = payout.ticks + 1
          /\ payout'.melts = << >> /\ payout'.skipped = {}
          /\ (payout'.balance >= PayoutMint.MinPayoutAmount /\ identities.present) =>
               /\ payout'.pc = "shares"
               /\ payout'.i = 1
               /\ payout'.aimedPaymentAmount = payout'.balance - PayoutMint.MinBalance]_vars

\* an entry whose payout failed in the first tick is paid out in the second,
\* from another balance
C25_Witness ==
  /\ payout.ticks = 2
  /\ payout.balance = 14
  /\ \E melt \in Melts : melt.share \in payout.failedBefore /\ melt.ok /\ melt.amount = 12

\* C28: a call of OpenGateUntil that finds an entry for the device runs no
\* ndsctl and no tc command: its steps leave the authorization and the
\* bandwidth limits as they are; it stops the timer of the entry and then
\* stores a new timer in its place.
C28_ExtensionDoesNotAuthorize ==
  [][\A c \in Callers :
       (call[c].exists /\ call'[c] # call[c]) =>
         /\ UNCHANGED <<netAuth, tcClass, tcFilter>>
         /\ call[c].pc \in {"locked", "timer"}
         /\ call[c].pc = "locked" =>
              /\ call'[c].pc = "timer"
              /\ timers'[call[c].existingTimer].state # "pending"
              /\ Len(timers') = Len(timers)
              /\ UNCHANGED openGates
         /\ call[c].pc = "timer" =>
              /\ call'[c].pc = "done" /\ call'[c].err = NoErr
              /\ Len(timers') = Len(timers) + 1
              /\ timers'[Len(timers')].state = "pending"
              /\ openGates'[call[c].macAddress] = Len(timers')]_vars

\* a second call for an authorized device has stopped the first timer and
\* stored the second; the device is authorized as before
C28_Witness ==
  /\ Len(timers) = 2
  /\ timers[1].state = "stopped"
  /\ timers[2].macAddress = timers[1].macAddress
  /\ timers[2].state = "pending"
  /\ openGates[timers[2].macAddress] = 2
  /\ netAuth[timers[2].macAddress]
  /\ call[1].pc = "done" /\ call[1].err = NoErr

\* OpenGateUntil is being called for the device
Calling(d) == \E c \in Callers : call[c].pc \notin Resting /\ call[c].macAddress = d

\* C29: a device that has an entry in openGates while no OpenGateUntil is
\* under way for it loses the entry eventually, unless OpenGateUntil is called
\* for it again; this is so whether `ndsctl deauth` succeeds or fails.
C29_EntryEventuallyRemoved ==
  \A d \in LiveDevices :
    (d \in DOMAIN openGates /\ ~Calling(d)) ~> (d \notin DOMAIN openGates \/ Calling(d))

\* the timer of a device has fired, `ndsctl deauth` has failed and the entry
\* is gone all the same
C29_Witness ==
  \E t \in TimerIds :
    /\ timers[t].state = "done"
    /\ netAuth[timers[t].macAddress]
    /\ timers[t].macAddress \notin DOMAIN openGates
    /\ \A c \in Callers : call[c].pc \in Resting
    /\ \A u \in TimerIds : timers[u].state \in {"done", "stopped"}

\* ------------------------------------- properties of InitTrafficControl

\* the root of br-lan's queueing as it is
RootNow == [qdisc |-> trafficControl.qdisc, rootClass |-> trafficControl.rootClass]

\* the call of InitTrafficControl has returned
TcReturned == trafficControl.calls > 0 /\ trafficControl.pc = "idle"

\* C27: a call of InitTrafficControl that finds an HTB root on the interface
\* runs no delete and no add command, returns nil and leaves the interface
\* as it was; so does every call after one that returned nil and whose
\* `tc qdisc show` works; a call that finds no HTB root and returns nil has
\* deleted the old root and added the HTB root and its class 1:1.
C27_InitTrafficControlIdempotent ==
  TcReturned =>
    /\ trafficControl.sawHTB =>
          /\ trafficControl.before.qdisc = "htb"
          /\ trafficControl.cmds = <<"qdisc show">>
          /\ trafficControl.err = NoErr
          /\ RootNow = trafficControl.before
    /\ (trafficControl.before.qdisc = "htb" /\ trafficControl.err # ErrTcShow) =>
          trafficControl.sawHTB
    /\ trafficControl.okBefore =>
          /\ RootNow = trafficControl.before
          /\ trafficControl.err \in {NoErr, ErrTcShow}
          /\ trafficControl.cmds = <<"qdisc show">>
    /\ (~trafficControl.sawHTB /\ trafficControl.err = NoErr) =>
          /\ trafficControl.before.qdisc # "htb"
          /\ trafficControl.cmds = <<"qdisc show", "qdisc del", "qdisc add", "class add">>
          /\ RootNow = [qdisc |-> "htb", rootClass |-> TRUE]

\* a call has returned nil; the next call found the HTB root with its class and
\* ran nothing but `tc qdisc show`
C27_Witness ==
  /\ TcReturned
  /\ trafficControl.calls = 2
  /\ trafficControl.okBefore
  /\ trafficControl.sawHTB
  /\ trafficControl.cmds = <<"qdisc show">>
  /\ RootNow = [qdisc |-> "htb", rootClass |-> TRUE]

\* ------------------------------------------------ properties of sessions

\* the callback of timer t takes a step: it starts, deauthorizes, removes the
\* bandwidth limit or deletes the entry
FiringStep(t) == CallbackStep(t) /\ timers'[t].state # "stopped"

\* C26: no step deletes a session: GetSession finds every session that was
\* there before the step, for the same device; and the steps of a firing
\* timer, the deletion of the openGates entry included, leave every session
\* as it is.
C26_SessionsNeverDeleted ==
  [][/\ \A d \in DOMAIN customerSessions :
          /\ (GetSession(customerSessions, d).err)' = NoErr
          /\ (GetSession(customerSessions, d).session.MacAddress)' = d
     /\ (\E t \in TimerIds : FiringStep(t)) => customerSessions' = customerSessions]_vars

\* the timer of a device has fired and deleted the entry; the session the
\* payment created is still found, with its allotment and start time
C26_Witness ==
  \E t \in TimerIds :
    LET d == timers[t].macAddress IN
      /\ timers[t].state = "done"
      /\ d \notin DOMAIN openGates
      /\ clock = 1
      /\ GetSession(customerSessions, d).err = NoErr
      /\ GetSession(customerSessions, d).session.Allotment = 1200
      /\ GetSession(customerSessions, d).session.StartTime = 0

\* C30: when the k-th of the payments a goroutine serves one after the other
\* for a device calls OpenGateUntil, all k having been merged and none having
\* ended without its gate, and no one else having called AddAllotment, the
\* deadline is the time of the k-th merge plus floor(sum of the k
\* allotments / 1000) seconds, whatever the clock and the timers did in
\* between.
C30_DeadlineRestartsWithSum ==
  \A p \in Callers :
    (purchase[p].pc = "gate" /\ added = 0 /\ ~purchase[p].paid.lost) =>
      LET seconds == purchase[p].endTimestamp - purchase[p].paid.at IN
        /\ seconds >= 0
        /\ 1000 * seconds <= purchase[p].paid.sum
        /\ purchase[p].paid.sum < 1000 * (seconds + 1)

\* the second payment of 1200 ms each arrives after the gate of the first has
\* expired: the deadline is 1 + 2
C30_Witness ==
  /\ purchase[1].pc = "gate"
  /\ added = 0
  /\ purchase[1].paid = [count |-> 2, sum |-> 2400, at |-> 1, lost |-> FALSE]
  /\ purchase[1].endTimestamp = 3
  /\ \E t \in TimerIds : timers[t].state = "done"

\* ------------------------------------- properties of a failed gate opening

\* PurchaseSession p returns in this step, OpenGateUntil having failed
GateFailedReturn(p) ==
  /\ purchase[p].pc = "gate"
  /\ purchase'[p].pc = "done"
  /\ Failed(call[p].err)

\* C31: a PurchaseSession that returns because OpenGateUntil failed answers
\* with the gate-opening-failed notice and rolls nothing back: its token is
\* and stays redeemed, the session store is left as it is and holds the
\* session of the device.  So the session of the device holds, at all times,
\* the sum of the allotments of all payments merged so far (those whose gate
\* was not opened included) next to what was added from outside, and the
\* start time of the last merge.
C31_GateFailureKeepsPayment ==
  /\ [](\A p \in Callers :
         purchase[p].paid.count > 0 =>
           \E d \in DOMAIN customerSessions :
             /\ customerSessions[d].Allotment = purchase[p].paid.sum + OutsideAmount * added
             /\ customerSessions[d].StartTime >= purchase[p].paid.at
             /\ added = 0 => customerSessions[d].StartTime = purchase[p].paid.at)
  /\ [][\A p \in Callers :
          GateFailedReturn(p) =>
            /\ purchase'[p].reply = CreateNoticeEvent("error", CodeGate)
            /\ purchase[p].paymentToken \in redeemed
            /\ redeemed' = redeemed
            /\ customerSessions' = customerSessions
            /\ purchase[p].deviceIdentifier \in DOMAIN customerSessions
            /\ Pointee(p).Allotment >= purchase[p].allotment]_vars

\* a payment of 7200000 ms has ended without its gate, a later one of the
\* same size has opened the gate: the session holds both
C31_Witness ==
  /\ purchase[1].pc = "done"
  /\ purchase[1].reply = createSessionEvent
  /\ purchase[1].paid.lost
  /\ purchase[1].paid.count = 2
  /\ added = 0
  /\ customerSessions[Mac(1)].Allotment = 14400000
  /\ redeemed = {"cashuA1", "cashuA2"}

\* ------------------------- properties of a failure before the session merge

\* no entry of the accepted mints is for the mint
NoPricing(cfg, mintURL) ==
  \A i \in 1..Len(cfg.AcceptedMints) : cfg.AcceptedMints[i].URL # mintURL

\* the amount buys fewer steps than the least purchase of the mint
BelowMinimum(cfg, mintURL, amountSats) ==
  \E i \in 1..Len(cfg.AcceptedMints) :
    /\ cfg.AcceptedMints[i].URL = mintURL
    /\ \A j \in 1..(i - 1) : cfg.AcceptedMints[j].URL # mintURL
    /\ amountSats < cfg.AcceptedMints[i].PricePerStep * cfg.AcceptedMints[i].MinPurchaseSteps

\* the session store and the gate: its map, its timers, ndsctl's
\* authorizations and the tc rules
StoreAndGateUnchanged ==
  UNCHANGED <<customerSessions, openGates, timers, netAuth, tcClass, tcFilter>>

\* C32: every step of a PurchaseSession up to and including the pricing of
\* the redeemed token leaves the session store, openGates, the timers, the
\* authorizations and the tc rules as they are, and a call that is answered
\* with the notice of one of the stages 1 to 6 has taken no other step; a
\* redeemed token whose mint is not configured, or whose amount is below the
\* least purchase, is answered with allotment-calculation-failed in the step
\* that redeemed it.
C32_EarlyFailureChangesNothing ==
  [][\A p \in Callers :
       LET before == purchase[p]
           after == purchase'[p] IN
         /\ (after # before /\ before.pc \in Resting \cup {"receive"}) =>
              StoreAndGateUnchanged
         /\ (after # before /\ after.pc = "done"
               /\ ErrorNotice(after, UNION {StageCodes[k] : k \in 1..6})) =>
              /\ before.pc \in Resting \cup {"receive"}
              /\ "session" \notin {after.stages[i] : i \in 1..Len(after.stages)}
              /\ StoreAndGateUnchanged
         /\ (before.pc = "receive" /\ after # before /\ after.recvErr = << >>
               /\ \/ NoPricing(config, before.mint)
                  \/ BelowMinimum(config, before.mint, after.amountAfterSwap)) =>
              /\ after.pc = "done"
              /\ ErrorNotice(after, {CodeAllotment})
              /\ before.paymentToken \in redeemed'
              /\ StoreAndGateUnchanged]_vars

\* a payment has opened the gate; the next one, with a token of a mint that
\* is not configured, was redeemed and answered with
\* allotment-calculation-failed: session, gate entry and timer are those of
\* the first
C32_Witness ==
  /\ purchase[1].pc = "done"
  /\ ErrorNotice(purchase[1], {CodeAllotment})
  /\ TokenOf(purchase[1].event) = "cashuX1"
  /\ "cashuX1" \in redeemed
  /\ purchase[1].paid.count = 1
  /\ added = 0
  /\ customerSessions[Mac(1)].Allotment = 7200000
  /\ Mac(1) \in DOMAIN openGates
  /\ timers[openGates[Mac(1)]].state = "pending"
  /\ netAuth[Mac(1)]

\* ------------------------------------------------ properties of getClassID

\* the text is a MAC address in the notation with colons: six parts of two
\* digits of base 16
IsColonMac(parts) ==
  /\ Len(parts) = 6
  /\ \A i \in 1..6 : Len(parts[i]) = 2 /\ \A j \in 1..2 : IsHexDigit(parts[i][j])

\* the last byte of such an address
LastByte(parts) == 16 * HexValue(parts[6][1]) + HexValue(parts[6][2])

C34_LiveTimerFromFinalSession ==
  \A d \in DOMAIN customerSessions :
    ( /\ added = 0
      /\ \A p \in Payers :
           /\ purchase[p].pc = "done"
           /\ purchase[p].reply = createSessionEvent
           /\ DeviceOf(purchase[p].event) = d ) =>
      /\ d \in DOMAIN openGates
      /\ timers[openGates[d]].untilTimestamp =
           customerSessions[d].StartTime + (customerSessions[d].Allotment \div 1000)

\* C35: the OpenGateUntil that PurchaseSession calls for a payment whose
\* allotment was priced and merged never returns the error of a deadline
\* that is not in the future.
C35_AcceptedPaymentNeverPast ==
  \A p \in Callers :
    (purchase[p].pc = "gate" /\ call[p].pc = "done") => call[p].err # ErrPast

\* `ndsctl auth` was run in this step of caller c: it succeeded and the
\* device is authorized, or it failed and the call returns its error
AuthorizeIssued(c) ==
  \/ call'[c].pc = "setbw" /\ netAuth'[call[c].macAddress]
  \/ /\ call'[c].pc = "done"
     /\ call'[c].err = ErrAuthorize
     /\ call'[c].authErr = ErrNdsctl
     /\ UNCHANGED netAuth

\* C36: a callback that has run deauthorizeMAC goes on to take the device out
\* of openGates, whether `ndsctl deauth` succeeded or failed; and a call of
\* OpenGateUntil with a deadline in the future that finds no entry for the
\* device when it holds gatesMutex runs `ndsctl auth` as its next step.
C36_NoEntryMeansAuthorize ==
  [][/\ \A t \in TimerIds :
          /\ (timers[t].state = "deauth" /\ timers'[t].state # "deauth") =>
               timers'[t].state \in {"rmbw", "delete"}
          /\ (timers[t].state = "delete" /\ timers'[t].state # "delete") =>
               timers[t].macAddress \notin DOMAIN openGates'
     /\ \A c \in Callers :
          /\ (call[c].pc = "lock" /\ call'[c] # call[c]) =>
               call'[c].exists = (call[c].macAddress \in DOMAIN openGates)
          /\ (call[c].pc = "locked" /\ ~call[c].exists /\ call'[c] # call[c]) =>
               AuthorizeIssued(c)]_vars

\* the timer of a device has fired and its callback has deleted the entry;
\* the next call for the device, finding no entry, has authorized it again
C36_Witness ==
  \E t \in TimerIds :
    /\ timers[t].state = "done"
    /\ timers[t].macAddress = call[1].macAddress
    /\ call[1].pc = "setbw"
    /\ ~call[1].exists
    /\ call[1].macAddress \notin DOMAIN openGates
    /\ netAuth[call[1].macAddress]
    /\ \A u \in TimerIds : timers[u].state = "done"

\* ------------------------------------------- properties of the payout amounts

\* C37: a tick of processPayout that has passed the check of the threshold
\* has read a balance of MinBalance at least, and the amount it aims to pay
\* out is the balance less MinBalance, which is no more than the balance.
C37_SubtractionNeverWraps ==
  (payout.ticks > 0 /\ payout.balance >= PayoutMint.MinPayoutAmount) =>
    /\ payout.balance >= PayoutMint.MinBalance
    /\ payout.aimedPaymentAmount + PayoutMint.MinBalance = payout.balance
    /\ payout.aimedPaymentAmount <= payout.balance

\* the sum of the amounts of the payouts melts[1..k]
RECURSIVE AmountsUpTo(_, _)
AmountsUpTo(melts, k) ==
  IF k = 0 THEN 0 ELSE AmountsUpTo(melts, k - 1) + melts[k].amount

\* the sum of the configured factors, in quarters
RECURSIVE QuartersUpTo(_, _)
QuartersUpTo(profitShare, k) ==
  IF k = 0 THEN 0 ELSE QuartersUpTo(profitShare, k - 1) + profitShare[k].Factor

\* C38: with profit-share factors that sum to 1 at most, the amounts handed
\* to PayoutShare within one tick sum to aimed = balance - MinBalance at most.
C38_SharesWithinAimed ==
  (payout.ticks > 0 /\ QuartersUpTo(config.ProfitShare, Len(config.ProfitShare)) <= 4) =>
    AmountsUpTo(payout.melts, Len(payout.melts)) <= payout.aimedPaymentAmount

\* C17: determineTier answers for every amount: "free" for 0, "free" for 1
\* to 9 and "premium" for 10 and more.
C17_TierOfAmount ==
  "determineTier" \in calc.applied =>
    /\ calc.tier \in {"free", "premium"}
    /\ calc.amount = 0 => calc.tier = "free"
    /\ calc.amount \in 1..9 => calc.tier = "free"
    /\ calc.amount >= 10 => calc.tier = "premium"

C17_Witness ==
  "determineTier" \in calc.applied /\ calc.amount = 10 /\ calc.tier = "premium"

\* C19: for a mint the configuration prices, calculateAllotment takes
\* steps = floor(amount / pricePerStep), fails when steps < minPurchaseSteps,
\* otherwise returns steps * stepSize for the millisecond metric and fails for
\* any other metric; 25 at 10 per step of 3600000 with a minimum of 1 gives
\* 7200000, and 5 fails.
C19_AllotmentOfAmount ==
  ("calculateAllotment" \in calc.applied /\ calc.mintURL = MintA) =>
    LET pricing == config.AcceptedMints[1]
        steps == CHOOSE n \in 0..calc.amount :
                   /\ n * pricing.PricePerStep <= calc.amount
                   /\ calc.amount < (n + 1) * pricing.PricePerStep IN
      /\ steps < pricing.MinPurchaseSteps => calc.err = ErrSteps
      /\ (steps >= pricing.MinPurchaseSteps /\ config.Metric = "milliseconds") =>
           calc.err = NoErr /\ calc.value = steps * config.StepSize
      /\ (steps >= pricing.MinPurchaseSteps /\ config.Metric # "milliseconds") =>
           calc.err = ErrMetric
      /\ ( /\ pricing.PricePerStep = 10 /\ pricing.MinPurchaseSteps = 1
           /\ config.StepSize = 3600000 /\ config.Metric = "milliseconds" ) =>
           /\ calc.amount = 25 => calc.err = NoErr /\ calc.value = 7200000
           /\ calc.amount = 5 => calc.err # NoErr

C19_Witness ==
  /\ "calculateAllotment" \in calc.applied
  /\ calc.amount = 25
  /\ calc.mintURL = MintA
  /\ config.AcceptedMints[1].PricePerStep = 10
  /\ config.AcceptedMints[1].MinPurchaseSteps = 1
  /\ config.StepSize = 3600000
  /\ config.Metric = "milliseconds"
  /\ calc.value = 7200000

TypeOK ==
  /\ clock \in 0..MaxTime
  /\ gatesMutex \in {Unlocked} \cup Callers
  /\ DOMAIN openGates \subseteq Devices
  /\ \A d \in DOMAIN openGates : openGates[d] \in TimerIds
====
